---------------------------- MODULE Spec2Model ----------------------------
(***************************************************************************)
(* Curved-mirror renderer: curve designers, cubic-to-quadratic             *)
(* approximator, Bezier-to-polynomial converter and the extruded-profile   *)
(* ray/segment intersection of the fragment shader.                        *)
(*                                                                         *)
(* Numbers.  The closed-form algebra (profile polynomials, ray/segment     *)
(* roots, canvas-to-physical conversion) is evaluated in exact rational    *)
(* arithmetic: a rational is a pair <<n, d>> in lowest terms with d > 0.   *)
(* The pixel-space approximator (splineToQuadraticBezier.js) compares a    *)
(* computed error with a caller-chosen tolerance, so there rounding is     *)
(* part of the behaviour: its numbers are binary floating point, rounded   *)
(* to nearest-even after every operation as in JavaScript, with the        *)
(* significand shortened from 53 to MantissaBits bits.  A float is a pair  *)
(* <<m, e>> standing for m * 2^e, with 2^(MantissaBits-1) <= |m| <         *)
(* 2^MantissaBits (or <<0, 0>>); the exponent is unbounded.  The designers *)
(* export through the approximator, so their curves and the viewport's     *)
(* segment lists are floats as well.                                       *)
(*                                                                         *)
(* Specifications.  SpecRender: RayTracedMirror / SimpleWebcam uploading   *)
(* a profile and one fragment being shaded.  SpecSpline: one call of       *)
(* splineToQuadraticBezier, loop iteration by loop iteration.              *)
(* SpecDesigner: a curve designer under mouse events, publishing to App    *)
(* and through MirrorViewport.                                             *)
(***************************************************************************)
EXTENDS Integers, Sequences, FiniteSets, TLC

(***************************************************************************)
(* Exact rational arithmetic                                               *)
(***************************************************************************)
Abs(n) == IF n < 0 THEN -n ELSE n

RECURSIVE GCD(_, _)
GCD(a, b) == IF b = 0 THEN a ELSE GCD(b, a % b)

RNorm(n, d) ==
    LET g == GCD(Abs(n), Abs(d))
        s == IF d < 0 THEN -1 ELSE 1
    IN  <<s * (n \div g), s * (d \div g)>>

RInt(i) == <<i, 1>>
RZero == <<0, 1>>
RNeg(a) == <<-a[1], a[2]>>
RAbs(a) == <<Abs(a[1]), a[2]>>

RAdd(a, b) ==
    LET g == GCD(a[2], b[2])
        l == (a[2] \div g) * b[2]
    IN  RNorm(a[1] * (l \div a[2]) + b[1] * (l \div b[2]), l)

RSub(a, b) == RAdd(a, RNeg(b))

RMul(a, b) ==
    LET g1 == GCD(Abs(a[1]), b[2])
        g2 == GCD(Abs(b[1]), a[2])
    IN  IF a[1] = 0 \/ b[1] = 0 THEN RZero
        ELSE <<(a[1] \div g1) * (b[1] \div g2), (a[2] \div g2) * (b[2] \div g1)>>

RInv(a) == IF a[1] < 0 THEN <<-a[2], -a[1]>> ELSE <<a[2], a[1]>>
RDiv(a, b) == RMul(a, RInv(b))

RLt(a, b) == RSub(a, b)[1] < 0
RLe(a, b) == RSub(a, b)[1] <= 0
RMin(a, b) == IF RLt(b, a) THEN b ELSE a
RMax(a, b) == IF RLt(a, b) THEN b ELSE a

RECURSIVE ISqrtBetween(_, _, _)
ISqrtBetween(n, lo, hi) ==
    IF lo >= hi THEN lo
    ELSE LET mid == (lo + hi + 1) \div 2
         IN  IF mid * mid <= n THEN ISqrtBetween(n, mid, hi)
             ELSE ISqrtBetween(n, lo, mid - 1)

ISqrt(n) == ISqrtBetween(n, 0, IF n < 46340 THEN n ELSE 46340)
IsSquare(n) == n >= 0 /\ ISqrt(n) * ISqrt(n) = n

RIsSquare(a) == IsSquare(a[1]) /\ IsSquare(a[2])
RSqrt(a) == <<ISqrt(a[1]), ISqrt(a[2])>>


R(n, d) == RNorm(n, d)

(***************************************************************************)
(* Binary floating point, round to nearest, ties to even                   *)
(***************************************************************************)
MantissaBits == 13

RECURSIVE BitLenBetween(_, _, _)
BitLenBetween(n, lo, hi) ==
    IF hi - lo = 1 THEN hi
    ELSE LET mid == (lo + hi) \div 2
         IN  IF n < 2^mid THEN BitLenBetween(n, lo, mid)
             ELSE BitLenBetween(n, mid, hi)

\* Number of binary digits of n, 1 <= n < 2^31.
BitLen(n) == BitLenBetween(n, 0, 31)

FZero == <<0, 0>>

\* Round the integer a >= 1 of L > MantissaBits digits, times 2^e, to
\* MantissaBits digits; sgn is the sign.
FRoundDown(sgn, a, e, sh) ==
    LET q == a \div 2^sh
        r == a % 2^sh
        half == 2^(sh - 1)
        q2 == IF r > half \/ (r = half /\ q % 2 = 1) THEN q + 1 ELSE q
    IN  IF q2 = 2^MantissaBits
        THEN <<sgn * 2^(MantissaBits - 1), e + sh + 1>>
        ELSE <<sgn * q2, e + sh>>

FRoundAt(n, e, L) ==
    IF L <= MantissaBits
    THEN <<n * 2^(MantissaBits - L), e - (MantissaBits - L)>>
    ELSE FRoundDown(IF n < 0 THEN -1 ELSE 1, Abs(n), e, L - MantissaBits)

\* The float nearest to n * 2^e, for an integer |n| < 2^31.
FRound(n, e) == IF n = 0 THEN FZero ELSE FRoundAt(n, e, BitLen(Abs(n)))

FInt(i) == FRound(i, 0)
FNeg(a) == <<-a[1], a[2]>>

\* a + b with a[2] >= b[2], both nonzero.
FAddOrdered(a, b) ==
    IF a[2] - b[2] > MantissaBits + 1 THEN a
    ELSE FRound(a[1] * 2^(a[2] - b[2]) + b[1], b[2])

FAdd(a, b) ==
    IF a[1] = 0 THEN b
    ELSE IF b[1] = 0 THEN a
    ELSE IF a[2] >= b[2] THEN FAddOrdered(a, b)
    ELSE FAddOrdered(b, a)

FSub(a, b) == FAdd(a, FNeg(b))

FMul(a, b) ==
    IF a[1] = 0 \/ b[1] = 0 THEN FZero
    ELSE FRound(a[1] * b[1], a[2] + b[2])

\* Quotient digits plus a sticky digit for the remainder.
FDivDigits(sgn, n, d, e) ==
    FRound(sgn * (2 * (n \div d) + (IF n % d = 0 THEN 0 ELSE 1)), e)

FDiv(a, b) ==
    IF a[1] = 0 THEN FZero
    ELSE FDivDigits(IF (a[1] < 0) = (b[1] < 0) THEN 1 ELSE -1,
                    Abs(a[1]) * 2^(MantissaBits + 2), Abs(b[1]),
                    a[2] - b[2] - (MantissaBits + 2) - 1)

RECURSIVE FloorSqrtBetween(_, _, _)
FloorSqrtBetween(n, lo, hi) ==
    IF lo >= hi THEN lo
    ELSE LET mid == (lo + hi + 1) \div 2
         IN  IF mid * mid <= n THEN FloorSqrtBetween(n, mid, hi)
             ELSE FloorSqrtBetween(n, lo, mid - 1)

\* Root digits of the integer n plus a sticky digit, times 2^e.
FSqrtDigits(n, s, e) == FRound(2 * s + (IF s * s = n THEN 0 ELSE 1), e)

FSqrtScaled(n, e) ==
    FSqrtDigits(n, FloorSqrtBetween(n, 0, 2^(MantissaBits + 1)), e)

\* Math.sqrt of a >= 0: the significand is scaled to an even exponent first.
FSqrt(a) ==
    IF a[1] = 0 THEN FZero
    ELSE IF (a[2] - (MantissaBits + 1)) % 2 = 0
    THEN FSqrtScaled(a[1] * 2^(MantissaBits + 1),
                     ((a[2] - (MantissaBits + 1)) \div 2) - 1)
    ELSE FSqrtScaled(a[1] * 2^(MantissaBits + 2),
                     ((a[2] - (MantissaBits + 2)) \div 2) - 1)

FSign(a) == IF a[1] > 0 THEN 1 ELSE IF a[1] < 0 THEN -1 ELSE 0

\* a < b
FLt(a, b) ==
    IF FSign(a) # FSign(b) THEN FSign(a) < FSign(b)
    ELSE IF FSign(a) = 0 THEN FALSE
    ELSE IF a[2] # b[2] THEN (IF FSign(a) > 0 THEN a[2] < b[2] ELSE a[2] > b[2])
    ELSE a[1] < b[1]

FLe(a, b) == ~FLt(b, a)

\* Math.max
FMax(a, b) == IF FLt(a, b) THEN b ELSE a

\* The float of the decimal literal n / d.
FLit(n, d) == FDiv(FInt(n), FInt(d))

(***************************************************************************)
(* State.  One record per component instance.                              *)
(*   props     the props/state the ray-traced component renders with       *)
(*             (RayTracedMirror props, or SimpleWebcam's slider state)     *)
(*   uniforms  what render() last uploaded to the fragment shader          *)
(*   frag      locals of one fragment-shader invocation (main)             *)
(*   fragPc    where that invocation stands                                *)
(***************************************************************************)
VARIABLES props, uniforms, frag, fragPc

(***************************************************************************)
(* State of one call of splineToQuadraticBezier(points, tolerance).        *)
(*   iSeg        the segment loop's index i                                *)
(*   quadratics  the output list built so far                              *)
(*   stack       work stack of the running cubicToQuadraticAdaptive, top   *)
(*               last; each entry carries, besides the cubic, its          *)
(*               subdivision depth and its parameter interval [lo, hi] in  *)
(*               units of 2^-MaxDepth (bookkeeping the code does not keep) *)
(*   result      that call's result list                                   *)
(*   fitted      for each element of result, the stack entry it was        *)
(*               fitted to (bookkeeping)                                   *)
(*   splinePc    where the call stands                                     *)
(***************************************************************************)
VARIABLES points, tolerance, iSeg, quadratics, stack, result, fitted, splinePc

(***************************************************************************)
(* State of the page: one curve designer, App's mirrorCurve, the viewport. *)
(*   designer         which designer component is mounted                  *)
(*   designerPoints   the designer's points state (records [x, y, id],     *)
(*                    canvas pixels)                                       *)
(*   draggingPointId  the designer's draggingPointId state, null = -1      *)
(*   nextId           nextIdRef.current                                    *)
(*   mounted          whether the designer's first effect has run          *)
(*   mirrorCurve      App's mirrorCurve state: the curveData last          *)
(*                    published through onCurveChange, or null             *)
(*   viewport         the props MirrorViewport last handed to              *)
(*                    RayTracedMirror                                      *)
(***************************************************************************)
VARIABLES designer, designerPoints, draggingPointId, nextId, mounted, mirrorCurve, viewport

(***************************************************************************)
(* State that only some of the designer components have.                   *)
(*   onCurveChange  whether the parent passed the onCurveChange prop       *)
(*   middlePoint    MirrorDesigner's middlePoint state                     *)
(*   draggingMiddle MirrorDesigner's draggingMiddle state                  *)
(*   draggingPoint  the index a designer without point ids drags           *)
(*                  (MirrorDesigner's draggingPoint, MirrorCurveDesigner's *)
(*                  draggedPointIndex, which is non-null exactly when its  *)
(*                  isDragging is set); 1-based, null = 0                  *)
(*   lineSegments   MirrorCurveDesigner's lineSegments state               *)
(*   history        MirrorCurveDesigner's history state                    *)
(*   effect         which of MirrorCurveDesigner's effects runs next after *)
(*                  a render, "idle" when none is pending                  *)
(***************************************************************************)
VARIABLES onCurveChange, middlePoint, draggingMiddle, draggingPoint, lineSegments, history, effect

(***************************************************************************)
(* State of one component that shows the camera or runs a render loop,     *)
(* and of the browser around it.                                           *)
(*   webcam   the component: which one it is, whether it is mounted, its   *)
(*            isActive state (a prop in ClassicMirrorViewport), the        *)
(*            srcObject of its video element (a stream's number, null = 0),*)
(*            whether that element has yet to fire loadedmetadata for its  *)
(*            srcObject, animationIdRef.current or the animationFrameId of *)
(*            the effect in force (null = 0), the render loop in force     *)
(*            (0 = none), and whether the effects of the last render have  *)
(*            run                                                          *)
(*   browser  the tracks of the streams getUserMedia has returned, the     *)
(*            getUserMedia and play() promises not yet settled, the        *)
(*            getUserMedia promises of components unmounted meanwhile,     *)
(*            the requestAnimationFrame callbacks pending (with the loop   *)
(*            that requested each), and how many ids and loops there were  *)
(***************************************************************************)
VARIABLES webcam, browser

renderVars == <<props, uniforms, frag, fragPc>>
splineVars == <<points, tolerance, iSeg, quadratics, stack, result, fitted, splinePc>>
editorVars == <<onCurveChange, middlePoint, draggingMiddle, draggingPoint, lineSegments, history, effect>>
designerVars == <<designer, designerPoints, draggingPointId, nextId, mounted, mirrorCurve, viewport, editorVars>>
cameraVars == <<webcam, browser>>
vars == <<props, uniforms, frag, fragPc,
          points, tolerance, iSeg, quadratics, stack, result, fitted, splinePc,
          designer, designerPoints, draggingPointId, nextId, mounted, mirrorCurve, viewport,
          onCurveChange, middlePoint, draggingMiddle, draggingPoint, lineSegments, history, effect,
          webcam, browser>>

\* JavaScript's null, as a value unlike any curveData.
null == [null |-> TRUE]

LINE_MIDDLE == 300

\* The state the components' useState calls start from.
EditorIdle ==
    /\ middlePoint = [x |-> 400, y |-> LINE_MIDDLE] /\ draggingMiddle = FALSE
    /\ draggingPoint = 0 /\ lineSegments = <<>> /\ history = <<>> /\ effect = "idle"

\* No designer page open.
DesignerIdle ==
    /\ designer = "none" /\ designerPoints = <<>> /\ draggingPointId = -1
    /\ nextId = 0 /\ mounted = FALSE /\ mirrorCurve = null /\ viewport = null
    /\ onCurveChange = FALSE /\ EditorIdle

\* No camera component on the page.
CameraIdle ==
    /\ webcam = [component |-> "none", mounted |-> FALSE, isActive |-> FALSE,
                 srcObject |-> 0, loading |-> FALSE, animationId |-> 0, loop |-> 0,
                 flushed |-> TRUE]
    /\ browser = [tracks |-> <<>>, getUserMedia |-> 0, abandoned |-> 0, play |-> 0,
                  frames |-> {}, requested |-> 0, loops |-> 0]

\* No call of splineToQuadraticBezier in progress.
SplineIdle ==
    /\ points = <<>> /\ tolerance = FZero /\ iSeg = 0 /\ quadratics = <<>>
    /\ stack = <<>> /\ result = <<>> /\ fitted = <<>> /\ splinePc = "idle"

MAX_SEGMENTS == 16

(***************************************************************************)
(* Bezier control points -> polynomial coefficients (JavaScript side)      *)
(***************************************************************************)
Seg(yMin, yMax, z0, z1, z2) ==
    [yMin |-> yMin, yMax |-> yMax, z0 |-> z0, z1 |-> z1, z2 |-> z2]

bezierToPolynomial_dropShift(yMin, yMax, z0, z1, z2) ==
    LET yRange == RSub(yMax, yMin)
        a_t == RAdd(RSub(z0, RMul(RInt(2), z1)), z2)
        b_t == RMul(RInt(2), RSub(z1, z0))
    IN  IF yRange = RZero
        THEN [a |-> RZero, b |-> RZero, c |-> z0, yMin |-> yMin]
        ELSE [a |-> RDiv(a_t, RMul(yRange, yRange)),
              b |-> RDiv(b_t, yRange),
              c |-> z0,
              yMin |-> yMin]

\* Fault variant of bezierToPolynomial: the degenerate case returns the
\* polynomial in t (a_t, b_t, c_t) instead of the flat one.
bezierToPolynomial_degenerateInT(yMin, yMax, z0, z1, z2) ==
    LET yRange == RSub(yMax, yMin)
        a_t == RAdd(RSub(z0, RMul(RInt(2), z1)), z2)
        b_t == RMul(RInt(2), RSub(z1, z0))
        c_t == z0
        yr2 == RMul(yRange, yRange)
        a == RDiv(a_t, yr2)
        b == RSub(RDiv(b_t, yRange),
                  RDiv(RMul(RMul(RInt(2), a_t), yMin), yr2))
        c == RSub(RAdd(c_t, RDiv(RMul(RMul(a_t, yMin), yMin), yr2)),
                  RDiv(RMul(b_t, yMin), yRange))
    IN  IF yRange = RZero
        THEN [a |-> a_t, b |-> b_t, c |-> c_t, yMin |-> yMin]
        ELSE [a |-> a, b |-> b, c |-> c, yMin |-> yMin]

bezierToPolynomial(yMin, yMax, z0, z1, z2) ==
    LET yRange == RSub(yMax, yMin)
        a_t == RAdd(RSub(z0, RMul(RInt(2), z1)), z2)
        b_t == RMul(RInt(2), RSub(z1, z0))
        c_t == z0
        yr2 == RMul(yRange, yRange)
        a == RDiv(a_t, yr2)
        b == RSub(RDiv(b_t, yRange),
                  RDiv(RMul(RMul(RInt(2), a_t), yMin), yr2))
        c == RSub(RAdd(c_t, RDiv(RMul(RMul(a_t, yMin), yMin), yr2)),
                  RDiv(RMul(b_t, yMin), yRange))
    IN  IF yRange = RZero
        THEN [a |-> RZero, b |-> RZero, c |-> z0, yMin |-> yMin]
        ELSE [a |-> a, b |-> b, c |-> c, yMin |-> yMin]

\* The values bezierToPolynomial(yMin, yMax, ...) divides by: none when
\* yRange === 0.0, otherwise yRange * yRange and yRange.
bezierDivisors(yMin, yMax) ==
    IF RSub(yMax, yMin) = RZero THEN {}
    ELSE {RMul(RSub(yMax, yMin), RSub(yMax, yMin)), RSub(yMax, yMin)}

\* RayTracedMirror: one polynomial per curve segment of the props.
createSegmentsFromControlPoints(curveSegments) ==
    [k \in 1..Len(curveSegments) |->
        bezierToPolynomial(curveSegments[k].yMin, curveSegments[k].yMax,
                           curveSegments[k].z0, curveSegments[k].z1,
                           curveSegments[k].z2)]

\* SimpleWebcam: a single segment spanning [-mirrorHalfHeight, mirrorHalfHeight],
\* with the same algebra written out inline.
createSegmentsFromControlPoints_SimpleWebcam(controlZ0, controlZ1, controlZ2, mirrorHalfHeight) ==
    LET yMin == RNeg(mirrorHalfHeight)
        yMax == mirrorHalfHeight
        yRange == RSub(yMax, yMin)
        z0 == controlZ0
        z1 == controlZ1
        z2 == controlZ2
        a_t == RAdd(RSub(z0, RMul(RInt(2), z1)), z2)
        b_t == RMul(RInt(2), RSub(z1, z0))
        c_t == z0
        yr2 == RMul(yRange, yRange)
        a == RDiv(a_t, yr2)
        b == RSub(RDiv(b_t, yRange),
                  RDiv(RMul(RMul(RInt(2), a_t), yMin), yr2))
        c == RSub(RAdd(c_t, RDiv(RMul(RMul(a_t, yMin), yMin), yr2)),
                  RDiv(RMul(b_t, yMin), yRange))
    IN  IF yRange = RZero
        THEN <<[a |-> RZero, b |-> RZero, c |-> z0, yMin |-> yMin]>>
        ELSE <<[a |-> a, b |-> b, c |-> c, yMin |-> yMin]>>

Min(m, n) == IF m < n THEN m ELSE n

\* segments.slice(0, 16)
slice16(segments) == SubSeq(segments, 1, Min(Len(segments), MAX_SEGMENTS))

\* What the sixteen gl.uniform4f calls upload from segmentData, a
\* Float32Array(16 * 4) that drops writes past its end: the first sixteen
\* segments at most (the zero padding behind them is left out).
uploaded(segments) == SubSeq(segments, 1, Min(Len(segments), MAX_SEGMENTS))

NoUniforms ==
    [u_segments |-> <<>>, u_numSegments |-> 0, u_mirrorDist |-> RZero,
     u_mirrorHalfWidth |-> RZero, u_mirrorHalfHeight |-> RZero,
     u_imagePlaneDist |-> RZero, u_imageSize |-> <<RZero, RZero>>]

NoFrag == [rd |-> <<RZero, RZero, RZero>>, i |-> 0, bestT |-> RZero, bestSeg |-> -1]

(***************************************************************************)
(* Fragment shader: per-segment intersection                               *)
(*                                                                         *)
(* The shader's small and huge literals against model rationals: every     *)
(* rational here has numerator and denominator below 2^31, so a nonzero    *)
(* one has magnitude above 4e-10 and every one lies below 1e20.  Hence     *)
(*   abs(x) < 1e-10  is  x = 0,   and   t < 1e20  is  TRUE.                *)
(* sqrt is exact: rays are offered only where every discriminant that is   *)
(* taken a root of is the square of a rational (ExactRoots).               *)
(***************************************************************************)
IsBelow1em10(x) == x[1] = 0
\* abs(x) < 1e-6, i.e. |n| * 10^6 < d, without the product.
IsBelow1em6(x) == Abs(x[1]) <= (x[2] - 1) \div 1000000
Huge1e20 == <<1, 0>>
LtBestT(t, bestT) == bestT = Huge1e20 \/ RLt(t, bestT)
MinusOne == <<-1, 1>>
TMin001 == <<1, 1000>>
sqrt(x) == RSqrt(x)
sign(x) == IF x[1] > 0 THEN RInt(1) ELSE IF x[1] < 0 THEN RInt(-1) ELSE RZero

\* Fault variant of rayCoeffs: qC without the u_mirrorDist offset.
rayCoeffs_noMirrorDist(a, b_coeff, c_coeff, ro, rd) ==
    <<RMul(RMul(a, rd[2]), rd[2]),
      RSub(RAdd(RMul(RMul(RMul(RInt(2), a), ro[2]), rd[2]), RMul(b_coeff, rd[2])),
           rd[3]),
      RSub(RAdd(RAdd(RMul(RMul(a, ro[2]), ro[2]), RMul(b_coeff, ro[2])), c_coeff),
           ro[3])>>

\* <<qA, qB, qC>> of  qA t^2 + qB t + qC = 0.  Vectors are <<x, y, z>>.
rayCoeffs(a, b_coeff, c_coeff, ro, rd) ==
    <<RMul(RMul(a, rd[2]), rd[2]),
      RSub(RAdd(RMul(RMul(RMul(RInt(2), a), ro[2]), rd[2]), RMul(b_coeff, rd[2])),
           rd[3]),
      RSub(RAdd(RAdd(RAdd(RMul(RMul(a, ro[2]), ro[2]), RMul(b_coeff, ro[2])),
                     c_coeff),
                uniforms.u_mirrorDist),
           ro[3])>>

discriminant(q) == RSub(RMul(q[2], q[2]), RMul(RMul(RInt(4), q[1]), q[3]))

\* t1, t2 of the quadratic formula.
quadraticRoots(q) ==
    LET sq == sqrt(discriminant(q))
    IN  <<RDiv(RSub(RNeg(q[2]), sq), RMul(RInt(2), q[1])),
          RDiv(RAdd(RNeg(q[2]), sq), RMul(RInt(2), q[1]))>>

\* (tMin > 0.001) ? tMin : ((tMax > 0.001) ? tMax : -1.0), r = <<t1, t2>>.
smallestPositive(r) ==
    IF RLt(TMin001, RMin(r[1], r[2])) THEN RMin(r[1], r[2])
    ELSE IF RLt(TMin001, RMax(r[1], r[2])) THEN RMax(r[1], r[2])
    ELSE MinusOne

\* The linear branch's root, rejected below 0.001.
linearRoot(t) == IF RLt(t, TMin001) THEN MinusOne ELSE t

\* The first candidate t; -1 stands for the early returns.
firstRoot(q) ==
    IF IsBelow1em10(q[1])
    THEN IF IsBelow1em10(q[2]) THEN MinusOne
         ELSE linearRoot(RDiv(RNeg(q[3]), q[2]))
    ELSE IF RLt(discriminant(q), RZero) THEN MinusOne
    ELSE smallestPositive(quadraticRoots(q))

\* hitY < yMin || hitY > yMax, with hitY = ro.y + rd.y * t.
hitOutOfDomain(t, yMin, yMax, ro, rd) ==
    \/ RLt(RAdd(ro[2], RMul(rd[2], t)), yMin)
    \/ RLt(yMax, RAdd(ro[2], RMul(rd[2], t)))

\* (t == min(t1, t2)) ? max(t1, t2) : min(t1, t2)
otherRoot(t, r) ==
    IF t = RMin(r[1], r[2]) THEN RMax(r[1], r[2]) ELSE RMin(r[1], r[2])

acceptOther(tOther, yMin, yMax, ro, rd) ==
    IF RLt(tOther, TMin001) THEN MinusOne
    ELSE IF hitOutOfDomain(tOther, yMin, yMax, ro, rd) THEN MinusOne
    ELSE tOther

\* "First root was out of domain - try the other root".
retryOtherRoot(q, t, yMin, yMax, ro, rd) ==
    IF RLt(discriminant(q), RZero) \/ IsBelow1em10(q[1]) THEN MinusOne
    ELSE acceptOther(otherRoot(t, quadraticRoots(q)), yMin, yMax, ro, rd)

\* Fault variant of validateHit: no second-root retry when the first root
\* falls outside the segment's domain.
validateHit_noRetry(q, t, yMin, yMax, ro, rd) ==
    IF RLt(t, RZero) THEN MinusOne
    ELSE IF hitOutOfDomain(t, yMin, yMax, ro, rd) THEN MinusOne
    ELSE t

\* From "if (t < 0.0) return -1.0" to "return t".
validateHit(q, t, yMin, yMax, ro, rd) ==
    IF RLt(t, RZero) THEN MinusOne
    ELSE IF hitOutOfDomain(t, yMin, yMax, ro, rd)
         THEN retryOtherRoot(q, t, yMin, yMax, ro, rd)
    ELSE t

intersectQuadratic(q, yMin, yMax, ro, rd) ==
    validateHit(q, firstRoot(q), yMin, yMax, ro, rd)

intersectSegment(a, b_coeff, c_coeff, yMin, yMax, ro, rd) ==
    intersectQuadratic(rayCoeffs(a, b_coeff, c_coeff, ro, rd), yMin, yMax, ro, rd)

\* The debug build of the shader (DEBUG_MODE 0): the linear branch checks the
\* domain itself, and a small-but-not-tiny qA takes the "stable" root formulas.
stableRoots(q) ==
    LET sq == sqrt(discriminant(q))
    IN  <<RDiv(RNeg(q[3]), q[2]),
          RDiv(RMul(RInt(-2), q[3]), RAdd(q[2], RMul(sign(q[2]), sq)))>>

linearRoot_debugBuild(t, yMin, yMax, ro, rd) ==
    IF RLt(t, TMin001) THEN MinusOne
    ELSE IF hitOutOfDomain(t, yMin, yMax, ro, rd) THEN MinusOne
    ELSE t

firstRoot_debugBuild(q, yMin, yMax, ro, rd) ==
    IF IsBelow1em10(q[1])
    THEN IF IsBelow1em10(q[2]) THEN MinusOne
         ELSE linearRoot_debugBuild(RDiv(RNeg(q[3]), q[2]), yMin, yMax, ro, rd)
    ELSE IF RLt(discriminant(q), RZero) THEN MinusOne
    ELSE IF IsBelow1em6(q[1]) THEN smallestPositive(stableRoots(q))
    ELSE smallestPositive(quadraticRoots(q))

intersectQuadratic_debugBuild(q, yMin, yMax, ro, rd) ==
    validateHit(q, firstRoot_debugBuild(q, yMin, yMax, ro, rd), yMin, yMax, ro, rd)

intersectSegment_debugBuild(a, b_coeff, c_coeff, yMin, yMax, ro, rd) ==
    intersectQuadratic_debugBuild(rayCoeffs(a, b_coeff, c_coeff, ro, rd),
                                  yMin, yMax, ro, rd)

(***************************************************************************)
(* Inputs of the rendering pipeline.                                       *)
(* MirrorViewport mounts RayTracedMirror with mirrorDist 3.5 and half      *)
(* extents 2.0; profiles are written <<yMin, yMax, z0, z1, z2>> with y in  *)
(* halves and z in eighths.  SimpleWebcam keeps its own slider state       *)
(* (mirrorHalfHeight 1.5, mirrorHalfWidth 2.0, mirrorDist and the three    *)
(* control depths in tenths).  The image plane is 8 x 6 at distance 1.0    *)
(* under MirrorViewport and 1.6 x 1.2 at distance 0.5 in SimpleWebcam.     *)
(***************************************************************************)
ViewportProfile(qs) ==
    [k \in 1..Len(qs) |->
        Seg(R(qs[k][1], 2), R(qs[k][2], 2),
            R(qs[k][3], 8), R(qs[k][4], 8), R(qs[k][5], 8))]

ViewportScene(qs) ==
    [component |-> "RayTracedMirror", curveSegments |-> ViewportProfile(qs),
     mirrorDist |-> R(7, 2), mirrorHalfWidth |-> R(2, 1),
     mirrorHalfHeight |-> R(2, 1),
     imagePlaneDist |-> R(1, 1), imageSizeX |-> R(8, 1), imageSizeY |-> R(6, 1)]

SimpleWebcamScene(d, z) ==
    [component |-> "SimpleWebcam",
     curveSegments |-> <<Seg(R(-3, 2), R(3, 2), R(z[1], 10), R(z[2], 10), R(z[3], 10))>>,
     mirrorDist |-> R(d, 10), mirrorHalfWidth |-> R(2, 1),
     mirrorHalfHeight |-> R(3, 2),
     imagePlaneDist |-> R(1, 2), imageSizeX |-> R(8, 5), imageSizeY |-> R(6, 5)]

ViewportProfiles ==
    { << <<-4, 4, 0, 0, 0>> >>,
      << <<-4, 0, 0, 0, 0>>, <<0, 4, 0, 0, 0>> >>,
      << <<-4, 4, -2, -4, -2>> >>,
      << <<-4, 4, 0, -4, 0>> >>,
      << <<-4, 4, 0, 4, -4>> >>,
      << <<-4, 0, 0, -2, -4>>, <<0, 4, -4, -2, 0>> >>,
      << <<-4, 2, 1, -2, -5>>, <<2, 3, -5, 2, -7>>, <<3, 4, -7, -4, -8>> >>,
      << <<-4, 2, 4, 3, 2>>, <<2, 3, 2, -8, -3>>, <<3, 4, -3, 1, 2>> >>,
      << <<-4, -2, 4, 1, -8>>, <<-2, 2, -8, -4, 0>>, <<2, 4, 0, -5, -8>> >>,
      << <<-4, 2, 1, -3, -4>>, <<2, 4, -4, 3, -3>> >> }

SimpleWebcamStates ==
    { <<20, <<-3, -6, -3>> >>, <<20, <<0, 0, 0>> >>, <<5, <<-10, -10, -10>> >>,
      <<5, <<-5, -5, -5>> >>, <<5, <<5, -10, 5>> >>, <<20, <<-5, 10, -5>> >>,
      <<5, <<-5, 10, -5>> >>, <<20, <<10, -4, 10>> >>, <<20, <<10, -10, 5>> >>,
      <<5, <<-10, -10, 10>> >>, <<5, <<-10, 0, -10>> >> }

Scenes ==
    { ViewportScene(qs) : qs \in ViewportProfiles }
    \cup { SimpleWebcamScene(s[1], s[2]) : s \in SimpleWebcamStates }

\* Unit ray directions normalize(vec3(ndc * fovScale, 1.0)) with rational
\* components, inside the 60 degree field of view.
Rays ==
    { <<R(0, 1), R(0, 1), R(1, 1)>>,
      <<R(0, 1), R(5, 13), R(12, 13)>>,
      <<R(0, 1), R(-5, 13), R(12, 13)>>,
      <<R(3, 13), R(4, 13), R(12, 13)>>,
      <<R(2, 7), R(3, 7), R(6, 7)>>,
      <<R(2, 7), R(-3, 7), R(6, 7)>>,
      <<R(3, 5), R(0, 1), R(4, 5)>>,
      <<R(0, 1), R(8, 17), R(15, 17)>>,
      <<R(0, 1), R(-8, 17), R(15, 17)>>,
      <<R(6, 11), R(2, 11), R(9, 11)>> }

Origin == <<RZero, RZero, RZero>>

\* yMax of segment i (0-based): the next segment's yMin, or +halfHeight.
segmentYMax(i) ==
    IF i + 1 < uniforms.u_numSegments
    THEN uniforms.u_segments[i + 2].yMin
    ELSE uniforms.u_mirrorHalfHeight

\* The indices of u_segments that iteration i of the segment loop reads.
indicesRead(i) == {i} \cup (IF i + 1 < uniforms.u_numSegments THEN {i + 1} ELSE {})

\* What a read of u_segments[MAX_SEGMENTS].w can give: zero or the w of an
\* element of the array.
OutOfBoundsReads ==
    {RZero} \cup {uniforms.u_segments[k].yMin : k \in 1..Len(uniforms.u_segments)}

\* yMax as iteration i reads it, with outOfBounds the value of a read past
\* the end of u_segments.
yMaxRead(i, outOfBounds) ==
    IF i + 1 < uniforms.u_numSegments /\ i + 1 >= MAX_SEGMENTS THEN outOfBounds
    ELSE segmentYMax(i)

exactRoot(q) ==
    IF IsBelow1em10(q[1]) THEN TRUE
    ELSE IF RLt(discriminant(q), RZero) THEN TRUE
    ELSE RIsSquare(discriminant(q))

ExactRoots(rd) ==
    \A k \in 1..Len(uniforms.u_segments) :
        exactRoot(rayCoeffs(uniforms.u_segments[k].a, uniforms.u_segments[k].b,
                            uniforms.u_segments[k].c, Origin, rd))

(***************************************************************************)
(* Actions of the rendering pipeline                                       *)
(***************************************************************************)
\* render(): convert the profile, truncate to the shader's array, upload.
render ==
    /\ fragPc \in {"mounted", "hit", "miss", "shaded"}
    /\ LET segments ==
               IF props.component = "SimpleWebcam"
               THEN createSegmentsFromControlPoints_SimpleWebcam(
                        props.curveSegments[1].z0, props.curveSegments[1].z1,
                        props.curveSegments[1].z2, props.mirrorHalfHeight)
               ELSE createSegmentsFromControlPoints(props.curveSegments)
           limitedSegments ==
               IF props.component = "RayTracedMirror" THEN slice16(segments)
               ELSE segments
       IN  uniforms' = [u_segments |-> uploaded(limitedSegments),
                        u_numSegments |-> Len(limitedSegments),
                        u_mirrorDist |-> props.mirrorDist,
                        u_mirrorHalfWidth |-> props.mirrorHalfWidth,
                        u_mirrorHalfHeight |-> props.mirrorHalfHeight,
                        u_imagePlaneDist |-> props.imagePlaneDist,
                        u_imageSize |-> <<props.imageSizeX, props.imageSizeY>>]
    /\ fragPc' = "drawn"
    /\ frag' = NoFrag
    /\ UNCHANGED <<props, splineVars, designerVars, cameraVars>>

\* main(), up to the segment loop: camera ray, bestT = 1e20, bestSeg = -1.
main_begin ==
    /\ fragPc = "drawn"
    /\ \E rd \in Rays :
          /\ ExactRoots(rd)
          /\ frag' = [rd |-> rd, i |-> 0, bestT |-> Huge1e20, bestSeg |-> -1]
    /\ fragPc' = "loop"
    /\ UNCHANGED <<props, uniforms, splineVars, designerVars, cameraVars>>

\* if (t > 0.0 && t < bestT) { if (abs(p.x) <= u_mirrorHalfWidth) ... }
keepNearest(f, t) ==
    IF RLt(RZero, t) /\ LtBestT(t, f.bestT)
       /\ RLe(RAbs(RAdd(Origin[1], RMul(f.rd[1], t))), uniforms.u_mirrorHalfWidth)
    THEN [f EXCEPT !.i = f.i + 1, !.bestT = t, !.bestSeg = f.i]
    ELSE [f EXCEPT !.i = f.i + 1]

\* One iteration of the segment loop.
main_loop ==
    /\ fragPc = "loop"
    /\ frag.i < MAX_SEGMENTS
    /\ frag.i < uniforms.u_numSegments
    /\ \E outOfBounds \in OutOfBoundsReads :
          frag' = keepNearest(frag,
                     intersectSegment(uniforms.u_segments[frag.i + 1].a,
                                      uniforms.u_segments[frag.i + 1].b,
                                      uniforms.u_segments[frag.i + 1].c,
                                      uniforms.u_segments[frag.i + 1].yMin,
                                      yMaxRead(frag.i, outOfBounds), Origin, frag.rd))
    /\ UNCHANGED <<props, uniforms, fragPc, splineVars, designerVars, cameraVars>>

\* Loop exit: miss (black) when bestSeg < 0, otherwise a hit to shade.
main_exit ==
    /\ fragPc = "loop"
    /\ ~(frag.i < MAX_SEGMENTS /\ frag.i < uniforms.u_numSegments)
    /\ fragPc' = IF frag.bestSeg < 0 THEN "miss" ELSE "hit"
    /\ UNCHANGED <<props, uniforms, frag, splineVars, designerVars, cameraVars>>

InitRender ==
    /\ props \in Scenes
    /\ uniforms = NoUniforms
    /\ frag = NoFrag
    /\ fragPc = "mounted"
    /\ SplineIdle
    /\ DesignerIdle
    /\ CameraIdle

NextRender == render \/ main_begin \/ main_loop \/ main_exit

SpecRender == InitRender /\ [][NextRender]_vars

(***************************************************************************)
(* Fragment shader: shading stage                                          *)
(*                                                                         *)
(* normalize() and reflect() are taken together.  With N = n / |n|,        *)
(*   reflect(I, N) = I - 2 dot(N, I) N = I - 2 dot(n, I) / dot(n, n) * n,  *)
(* which has no square root left, so normals are kept as the vector n      *)
(* handed to normalize().  Colours are <<r, g, b>>; the colour of a        *)
(* sampled pixel depends on the video frame and is left empty.             *)
(***************************************************************************)
dot(u, v) == RAdd(RAdd(RMul(u[1], v[1]), RMul(u[2], v[2])), RMul(u[3], v[3]))

scaled(v, k) == <<RMul(v[1], k), RMul(v[2], k), RMul(v[3], k)>>

plus(u, v) == <<RAdd(u[1], v[1]), RAdd(u[2], v[2]), RAdd(u[3], v[3])>>

Black == <<RZero, RZero, RZero>>
BehindMirror == <<R(3, 100), R(3, 100), R(5, 100)>>
OffImage == <<R(2, 100), R(2, 100), R(3, 100)>>

\* computeNormal: vec3(0.0, dzdy, -1.0), the argument of normalize().
computeNormal(hitY, a, b_coeff) ==
    <<RZero, RAdd(RMul(RMul(RInt(2), a), hitY), b_coeff), RInt(-1)>>

\* reflect(I, normalize(n))
reflect(I, n) ==
    plus(I, scaled(n, RDiv(RMul(RInt(-2), dot(n, I)), dot(n, n))))

\* imgHit = hitPos + reflDir * tImg, tImg = (-u_imagePlaneDist - hitPos.z) / reflDir.z
imgHit(hitPos, reflDir) ==
    plus(hitPos,
         scaled(reflDir,
                RDiv(RSub(RNeg(uniforms.u_imagePlaneDist), hitPos[3]), reflDir[3])))

\* imgUV = imgHit.xy / u_imageSize + 0.5, then both flips.
imgUV(hit) ==
    <<RSub(RInt(1), RAdd(RDiv(hit[1], uniforms.u_imageSize[1]), R(1, 2))),
      RSub(RInt(1), RAdd(RDiv(hit[2], uniforms.u_imageSize[2]), R(1, 2)))>>

\* imgUV.x < 0.0 || imgUV.x > 1.0 || imgUV.y < 0.0 || imgUV.y > 1.0
outsideImage(uv) ==
    \/ RLt(uv[1], RZero) \/ RLt(RInt(1), uv[1])
    \/ RLt(uv[2], RZero) \/ RLt(RInt(1), uv[2])

\* What main leaves behind: the reflected direction, the image-plane UV,
\* whether texture2D was called, and gl_FragColor.
Shaded(reflDir, uv, sampled, colour) ==
    [reflDir |-> reflDir, imgUV |-> uv, texture2D |-> sampled, gl_FragColor |-> colour]

\* From the UV range test to the texture lookup.
sample(reflDir, uv) ==
    IF outsideImage(uv) THEN Shaded(reflDir, uv, FALSE, OffImage)
    ELSE Shaded(reflDir, uv, TRUE, <<>>)

\* From "if (reflDir.z >= 0.0)" on.
project(hitPos, reflDir) ==
    IF RLe(RZero, reflDir[3]) THEN Shaded(reflDir, <<>>, FALSE, BehindMirror)
    ELSE sample(reflDir, imgUV(imgHit(hitPos, reflDir)))

\* hitPos = ro + rd * t
hitAt(ro, rd, t) == plus(ro, scaled(rd, t))

\* The rest of main after a hit at hitPos with normal direction n.
shade(rd, hitPos, n) == project(hitPos, reflect(rd, n))

\* The extruded-profile shader: main from "vec3 hitPos = ro + rd * bestT" on.
main_shade ==
    /\ fragPc = "hit"
    /\ frag' = [rd |-> frag.rd, i |-> frag.i, bestT |-> frag.bestT,
                bestSeg |-> frag.bestSeg,
                shaded |-> shade(frag.rd, hitAt(Origin, frag.rd, frag.bestT),
                                 computeNormal(hitAt(Origin, frag.rd, frag.bestT)[2],
                                               uniforms.u_segments[frag.bestSeg + 1].a,
                                               uniforms.u_segments[frag.bestSeg + 1].b))]
    /\ fragPc' = "shaded"
    /\ UNCHANGED <<props, uniforms, splineVars, designerVars, cameraVars>>

(***************************************************************************)
(* The surface-of-revolution shader: z(r) = a2 r^4 + a1 r^2 + a0           *)
(*                                                                         *)
(* Arithmetic is exact as in the per-segment intersection: abs(x) < 1e-10  *)
(* is x = 0, w > 1e-12 is w > 0, bestT < 1e19 is "bestT was assigned", and *)
(* sqrt, pow(x, 1/3) and cos(acos(x) / 3) are exact; rays are offered only *)
(* where every such call has a rational result (exactQuartic, exactFast).  *)
(***************************************************************************)
RECURSIVE ICbrtBetween(_, _, _)
ICbrtBetween(n, lo, hi) ==
    IF lo >= hi THEN lo
    ELSE LET mid == (lo + hi + 1) \div 2
         IN  IF mid * mid * mid <= n THEN ICbrtBetween(n, mid, hi)
             ELSE ICbrtBetween(n, lo, mid - 1)

ICbrt(n) == ICbrtBetween(n, 0, IF n < 1290 THEN n ELSE 1290)
RIsCube(a) ==
    /\ ICbrt(Abs(a[1])) * ICbrt(Abs(a[1])) * ICbrt(Abs(a[1])) = Abs(a[1])
    /\ ICbrt(a[2]) * ICbrt(a[2]) * ICbrt(a[2]) = a[2]

\* pow(x, 1.0 / 3.0) for x >= 0
cbrt(x) == <<ICbrt(x[1]), ICbrt(x[2])>>

Divisors(n) == { d \in 1..n : n % d = 0 }

\* The cosines c in [1/2, 1] with cos(3 acos c) = 4 c^3 - 3 c = x; a rational
\* one has a numerator dividing x's and a denominator dividing 4 times x's.
CosThirds(x) ==
    { c \in { R(n, d) : n \in Divisors(Abs(x[1])), d \in Divisors(4 * x[2]) } :
        /\ RLe(R(1, 2), c) /\ RLe(c, RInt(1))
        /\ RSub(RMul(RInt(4), RMul(c, RMul(c, c))), RMul(RInt(3), c)) = x }

\* cos(acos(x) / 3.0)
cosThird(x) == CHOOSE c \in CosThirds(x) : TRUE

\* sign(u) * pow(abs(u), 1.0 / 3.0)
signedCbrt(u) == RMul(sign(u), cbrt(RAbs(u)))

\* q * q / 4.0 + p * p * p / 27.0
cubicDisc(p, q) ==
    RAdd(RDiv(RMul(q, q), RInt(4)), RDiv(RMul(RMul(p, p), p), RInt(27)))

\* One real root via Cardano.
cardano(q, sqrtDisc) ==
    RAdd(signedCbrt(RAdd(RDiv(RNeg(q), RInt(2)), sqrtDisc)),
         signedCbrt(RSub(RDiv(RNeg(q), RInt(2)), sqrtDisc)))

\* Three real roots: m * cos(theta), theta = acos(3 q / (p m)) / 3.
trigonometric(p, q, m) ==
    RMul(m, cosThird(RDiv(RMul(RInt(3), q), RMul(p, m))))

solveCubicDepressed(p, q) ==
    IF ~RLt(cubicDisc(p, q), RZero) THEN cardano(q, sqrt(cubicDisc(p, q)))
    ELSE trigonometric(p, q, sqrt(RDiv(RMul(RInt(-4), p), RInt(3))))

\* if (t > 0.001 && t < bestT) bestT = t;
nearer(bestT, t) == IF RLt(TMin001, t) /\ LtBestT(t, bestT) THEN t ELSE bestT

\* return bestT < 1e19 ? bestT : -1.0;
orMiss(bestT) == IF bestT = Huge1e20 THEN MinusOne ELSE bestT

\* The degenerate branch of solveQuartic, abs(c4) < 1e-10.
solveDegenerate(c0, c1, c2, c3) ==
    IF ~IsBelow1em10(c3) THEN MinusOne
    ELSE IF IsBelow1em10(c2) THEN MinusOne
    ELSE IF RLt(discriminant(<<c2, c1, c0>>), RZero) THEN MinusOne
    ELSE smallestPositive(quadraticRoots(<<c2, c1, c0>>))

\* <<p, q, r>> of the depressed quartic u^4 + p u^2 + q u + r, t = u - b/4.
depressed(b, c, d, e) ==
    <<RSub(c, RDiv(RMul(RInt(3), RMul(b, b)), RInt(8))),
      RAdd(RSub(d, RDiv(RMul(b, c), RInt(2))), RDiv(RMul(RMul(b, b), b), RInt(8))),
      RSub(RAdd(RSub(e, RDiv(RMul(b, d), RInt(4))),
                RDiv(RMul(RMul(b, b), c), RInt(16))),
           RDiv(RMul(RInt(3), RMul(RMul(b, b), RMul(b, b))), RInt(256)))>>

\* One "if (s >= 0.0) { ... }" block of the biquadratic branch.
biquadraticPair(bestT, s, b) ==
    IF RLt(s, RZero) THEN bestT
    ELSE nearer(nearer(bestT, RSub(sqrt(s), RDiv(b, RInt(4)))),
                RSub(RNeg(sqrt(s)), RDiv(b, RInt(4))))

\* q ~ 0: u^4 + p u^2 + r = 0
biquadratic(b, p, r, disc) ==
    IF RLt(disc, RZero) THEN MinusOne
    ELSE orMiss(biquadraticPair(
                  biquadraticPair(Huge1e20, RDiv(RAdd(RNeg(p), sqrt(disc)), RInt(2)), b),
                  RDiv(RSub(RNeg(p), sqrt(disc)), RInt(2)), b))

\* <<alpha, beta>> of the depressed resolvent cubic, rp = p / 2.
resolvent(rp, rq, rr) ==
    <<RSub(rq, RDiv(RMul(rp, rp), RInt(3))),
      RAdd(RSub(rr, RDiv(RMul(rp, rq), RInt(3))),
           RDiv(RMul(RInt(2), RMul(RMul(rp, rp), rp)), RInt(27)))>>

resolventOf(p, q, r) ==
    resolvent(RDiv(p, RInt(2)),
              RDiv(RSub(RMul(p, p), RMul(RInt(4), r)), RInt(16)),
              RDiv(RNeg(RMul(q, q)), RInt(64)))

\* m = solveCubicDepressed(alpha, beta) - rp / 3.0
resolventRoot(p, q, r) ==
    RSub(solveCubicDepressed(resolventOf(p, q, r)[1], resolventOf(p, q, r)[2]),
         RDiv(RDiv(p, RInt(2)), RInt(3)))

\* sq2mp after "if (sq2mp < 0.0) sq2mp = 0.0"
sq2mp(m, p) == RMax(RAdd(RMul(RInt(2), m), p), RZero)

\* One of the two quadratics u^2 + lin u + cst = 0 with lin = w or -w:
\* u1 = (-lin + sq) / 2, u2 = (-lin - sq) / 2, t = u - b / 4.
factor(bestT, lin, cst, b) ==
    IF RLt(RSub(RMul(lin, lin), RMul(RInt(4), cst)), RZero) THEN bestT
    ELSE nearer(nearer(bestT,
                       RSub(RDiv(RAdd(RNeg(lin), sqrt(RSub(RMul(lin, lin), RMul(RInt(4), cst)))),
                                 RInt(2)),
                            RDiv(b, RInt(4)))),
                RSub(RDiv(RSub(RNeg(lin), sqrt(RSub(RMul(lin, lin), RMul(RInt(4), cst)))),
                          RInt(2)),
                     RDiv(b, RInt(4))))

\* "Factor depressed quartic into two quadratics using m".
ferrari(b, q, m, w) ==
    IF ~RLt(RZero, w) THEN MinusOne
    ELSE orMiss(factor(factor(Huge1e20, w, RAdd(m, RDiv(q, RMul(RInt(2), w))), b),
                       RNeg(w), RSub(m, RDiv(q, RMul(RInt(2), w))), b))

solveDepressed(b, p, q, r) ==
    IF IsBelow1em10(q)
    THEN biquadratic(b, p, r, RSub(RMul(p, p), RMul(RInt(4), r)))
    ELSE ferrari(b, q, resolventRoot(p, q, r), sqrt(sq2mp(resolventRoot(p, q, r), p)))

solveNormalized(b, pqr) == solveDepressed(b, pqr[1], pqr[2], pqr[3])

solveQuartic(c0, c1, c2, c3, c4) ==
    IF IsBelow1em10(c4) THEN solveDegenerate(c0, c1, c2, c3)
    ELSE solveNormalized(RDiv(c3, c4),
                         depressed(RDiv(c3, c4), RDiv(c2, c4), RDiv(c1, c4), RDiv(c0, c4)))

\* Every sqrt, cube root and cos(acos / 3) that solveCubicDepressed(p, q)
\* evaluates is rational.
exactCubic(p, q) ==
    IF ~RLt(cubicDisc(p, q), RZero)
    THEN /\ RIsSquare(cubicDisc(p, q))
         /\ RIsCube(RAdd(RDiv(RNeg(q), RInt(2)), sqrt(cubicDisc(p, q))))
         /\ RIsCube(RSub(RDiv(RNeg(q), RInt(2)), sqrt(cubicDisc(p, q))))
    ELSE /\ RIsSquare(RDiv(RMul(RInt(-4), p), RInt(3)))
         /\ CosThirds(RDiv(RMul(RInt(3), q),
                           RMul(p, sqrt(RDiv(RMul(RInt(-4), p), RInt(3)))))) # {}

exactFactor(lin, cst) ==
    \/ RLt(RSub(RMul(lin, lin), RMul(RInt(4), cst)), RZero)
    \/ RIsSquare(RSub(RMul(lin, lin), RMul(RInt(4), cst)))

exactFerrari(q, m, s) ==
    /\ RIsSquare(s)
    /\ RLt(RZero, s) =>
          /\ exactFactor(sqrt(s), RAdd(m, RDiv(q, RMul(RInt(2), sqrt(s)))))
          /\ exactFactor(RNeg(sqrt(s)), RSub(m, RDiv(q, RMul(RInt(2), sqrt(s)))))

exactBiquadratic(p, disc) ==
    \/ RLt(disc, RZero)
    \/ /\ RIsSquare(disc)
       /\ \A s \in { RDiv(RAdd(RNeg(p), sqrt(disc)), RInt(2)),
                     RDiv(RSub(RNeg(p), sqrt(disc)), RInt(2)) } :
             RLt(s, RZero) \/ RIsSquare(s)

exactDepressed(p, q, r) ==
    IF IsBelow1em10(q) THEN exactBiquadratic(p, RSub(RMul(p, p), RMul(RInt(4), r)))
    ELSE /\ exactCubic(resolventOf(p, q, r)[1], resolventOf(p, q, r)[2])
         /\ exactFerrari(q, resolventRoot(p, q, r), sq2mp(resolventRoot(p, q, r), p))

\* Largest numerator and denominator of a depressed quartic's coefficients
\* for which the solver is evaluated; the exact arithmetic then stays within
\* 32-bit integers.
MaxCoefficient == 1000

withinReach(pqr) ==
    \A k \in 1..3 : Abs(pqr[k][1]) <= MaxCoefficient /\ pqr[k][2] <= MaxCoefficient

exactNormalized(pqr) == withinReach(pqr) /\ exactDepressed(pqr[1], pqr[2], pqr[3])

exactQuartic(c0, c1, c2, c3, c4) ==
    IF IsBelow1em10(c4)
    THEN ~IsBelow1em10(c3) \/ exactRoot(<<c2, c1, c0>>)
    ELSE exactNormalized(depressed(RDiv(c3, c4), RDiv(c2, c4), RDiv(c1, c4), RDiv(c0, c4)))

\* A, B, C of r^2(t) = A t^2 + B t + C
radial(ro, rd) ==
    <<RAdd(RMul(rd[1], rd[1]), RMul(rd[2], rd[2])),
      RMul(RInt(2), RAdd(RMul(ro[1], rd[1]), RMul(ro[2], rd[2]))),
      RAdd(RMul(ro[1], ro[1]), RMul(ro[2], ro[2]))>>

\* <<qa, qb, qc>> of solveQuadraticFastPath, s = <<A, B, C>>.
fastPathCoeffs(ro, rd, a1, a0, s) ==
    <<RMul(a1, s[1]),
      RSub(RMul(a1, s[2]), rd[3]),
      RSub(RAdd(RAdd(RMul(a1, s[3]), a0), uniforms.u_mirrorDist), ro[3])>>

\* solveQuadraticFastPath divides by 2 qa without testing it.  In GLSL a
\* division by zero yields an unspecified value, so the value returned when
\* qa = 0 is the parameter unspecified, which the caller draws from
\* Unspecified.
solveQuadratic(q, unspecified) ==
    IF RLt(discriminant(q), RZero) THEN MinusOne
    ELSE IF q[1] = RZero THEN unspecified
    ELSE smallestPositive(quadraticRoots(q))

solveQuadraticFastPath(ro, rd, a1, a0, unspecified) ==
    solveQuadratic(fastPathCoeffs(ro, rd, a1, a0, radial(ro, rd)), unspecified)

\* +infinity and NaN, values no rational operator is applied to.
Infinity == <<1, 0>>
NaN == <<0, 0>>

\* What solveQuadraticFastPath can return after dividing by zero: with IEEE
\* arithmetic t1 is NaN or an infinity and t2 is +infinity, so the function
\* returns -1 where min and max propagate NaN and +infinity where they
\* return the other operand; 1 and 2 stand for builds whose quotient is a
\* finite number.
Unspecified == {MinusOne, Infinity, RInt(1), RInt(2)}

\* c0 .. c4 of main's quartic, s = <<A, B, C>>.
quarticCoeffs(ro, rd, a2, a1, a0, s) ==
    <<RSub(RAdd(RAdd(RAdd(RMul(a2, RMul(s[3], s[3])), RMul(a1, s[3])), a0),
                uniforms.u_mirrorDist),
           ro[3]),
      RSub(RAdd(RMul(RMul(RInt(2), a2), RMul(s[2], s[3])), RMul(a1, s[2])), rd[3]),
      RAdd(RMul(a2, RAdd(RMul(RInt(2), RMul(s[1], s[3])), RMul(s[2], s[2]))),
           RMul(a1, s[1])),
      RMul(RMul(RInt(2), a2), RMul(s[1], s[2])),
      RMul(a2, RMul(s[1], s[1]))>>

solveQuarticOf(c) == solveQuartic(c[1], c[2], c[3], c[4], c[5])

\* abs(a2) < 1e-8 ? solveQuadraticFastPath(...) : solveQuartic(...)
intersectRevolution(ro, rd, a2, a1, a0, unspecified) ==
    IF IsBelow1em10(a2) THEN solveQuadraticFastPath(ro, rd, a1, a0, unspecified)
    ELSE solveQuarticOf(quarticCoeffs(ro, rd, a2, a1, a0, radial(ro, rd)))

\* Whether the call divides by zero (qa = 0 past the discriminant test).
dividesByZero(ro, rd, a2, a1, a0) ==
    /\ IsBelow1em10(a2)
    /\ fastPathCoeffs(ro, rd, a1, a0, radial(ro, rd))[1] = RZero
    /\ ~RLt(discriminant(fastPathCoeffs(ro, rd, a1, a0, radial(ro, rd))), RZero)

exactRevolution(ro, rd, a2, a1, a0) ==
    IF IsBelow1em10(a2) THEN exactRoot(fastPathCoeffs(ro, rd, a1, a0, radial(ro, rd)))
    ELSE LET c == quarticCoeffs(ro, rd, a2, a1, a0, radial(ro, rd))
         IN  exactQuartic(c[1], c[2], c[3], c[4], c[5])

\* surfaceNormal: vec3(-dzdx, -dzdy, 1.0), the argument of normalize(), turned
\* towards the camera "if (normal.z > 0.0)".
towardsCamera(n) == IF RLt(RZero, n[3]) THEN scaled(n, RInt(-1)) ELSE n

surfaceNormal(hitPos, a2, a1) ==
    LET r2 == RAdd(RMul(hitPos[1], hitPos[1]), RMul(hitPos[2], hitPos[2]))
        dCoeff == RAdd(RMul(RMul(RInt(4), a2), r2), RMul(RInt(2), a1))
    IN  towardsCamera(<<RNeg(RMul(hitPos[1], dCoeff)), RNeg(RMul(hitPos[2], dCoeff)),
                        RInt(1)>>)

\* length(hitPos.xy) > u_mirrorRadius, compared on the squares.
outsideRadius(hitPos) ==
    RLt(RMul(uniforms.u_mirrorRadius, uniforms.u_mirrorRadius),
        RAdd(RMul(hitPos[1], hitPos[1]), RMul(hitPos[2], hitPos[2])))

\* main with t = +infinity under IEEE arithmetic: hitPos = rd * t has an
\* infinite component where rd's is nonzero and NaN where it is zero.  With
\* no NaN, length(hitPos.xy) is infinite and the radius test ends main; with
\* one, every later value is NaN, every comparison is false, and main runs
\* through to texture2D.
shadeAtInfinity(rd) ==
    IF rd[1] # RZero /\ rd[2] # RZero THEN Shaded(<<>>, <<>>, FALSE, Black)
    ELSE Shaded(<<NaN, NaN, NaN>>, <<NaN, NaN>>, TRUE, <<>>)

\* main from "if (t < 0.0)" on.
shadeRevolution(rd, t, a2, a1) ==
    IF t = Infinity THEN shadeAtInfinity(rd)
    ELSE IF RLt(t, RZero) THEN Shaded(<<>>, <<>>, FALSE, Black)
    ELSE IF outsideRadius(hitAt(Origin, rd, t)) THEN Shaded(<<>>, <<>>, FALSE, Black)
    ELSE shade(rd, hitAt(Origin, rd, t), surfaceNormal(hitAt(Origin, rd, t), a2, a1))

\* Uniform values for the surface-of-revolution shader, which no component
\* of the repository drives: <<a2, a1, a0>>, u_mirrorDist, u_mirrorRadius,
\* u_imagePlaneDist, u_imageSize.
RevolutionUniforms(a, dist, radius, plane, size) ==
    [u_profileCoeffs |-> a, u_mirrorDist |-> dist, u_mirrorRadius |-> radius,
     u_imagePlaneDist |-> plane, u_imageSize |-> size]

Small == <<R(8, 5), R(6, 5)>>
Large == <<R(8, 1), R(6, 1)>>
Wide == <<R(16, 1), R(12, 1)>>

RevolutionScenes ==
    { RevolutionUniforms(<<RZero, RZero, RZero>>, RInt(2), R(3, 2), R(1, 2), Small),
      RevolutionUniforms(<<RZero, RZero, RZero>>, RInt(2), R(3, 2), RInt(1), Large),
      RevolutionUniforms(<<RZero, R(-1, 8), RZero>>, RInt(2), R(3, 2), RInt(1), Large),
      RevolutionUniforms(<<RZero, R(-1, 8), RZero>>, RInt(2), R(3, 2), R(1, 2), Small),
      RevolutionUniforms(<<RZero, R(2, 5), RZero>>, RInt(2), R(3, 2), R(1, 2), Small),
      RevolutionUniforms(<<RZero, R(11, 50), RZero>>, RInt(2), R(3, 2), RInt(1), Large),
      RevolutionUniforms(<<R(13182, 4375), R(-78, 175), R(-242, 91)>>, RInt(2), R(3, 2), RInt(1), Large),
      RevolutionUniforms(<<R(-250, 81), R(10, 9), R(-14, 5)>>, RInt(2), R(3, 2), RInt(1), Wide),
      RevolutionUniforms(<<R(-125, 81), R(-10, 9), R(-18, 5)>>, RInt(2), R(3, 2), RInt(1), Large),
      RevolutionUniforms(<<R(-250, 567), R(10, 63), R(-10, 7)>>, RInt(2), R(3, 2), RInt(1), Large),
      RevolutionUniforms(<<R(125, 81), R(-35, 9), RInt(2)>>, RInt(2), R(3, 2), RInt(1), Large),
      RevolutionUniforms(<<R(100, 81), R(-32, 3), RInt(-2)>>, RInt(2), R(3, 2), RInt(1), Large) }

\* main up to the intersection: camera ray, then the fast path or the quartic.
revolution_main_intersect ==
    /\ fragPc = "uniforms set"
    /\ \E rd \in Rays : \E u \in Unspecified :
          /\ exactRevolution(Origin, rd, uniforms.u_profileCoeffs[1],
                             uniforms.u_profileCoeffs[2], uniforms.u_profileCoeffs[3])
          /\ frag' = [rd |-> rd,
                      t |-> intersectRevolution(Origin, rd, uniforms.u_profileCoeffs[1],
                                                uniforms.u_profileCoeffs[2],
                                                uniforms.u_profileCoeffs[3], u),
                      dividedByZero |->
                          dividesByZero(Origin, rd, uniforms.u_profileCoeffs[1],
                                        uniforms.u_profileCoeffs[2],
                                        uniforms.u_profileCoeffs[3])]
    /\ fragPc' = "intersected"
    /\ UNCHANGED <<props, uniforms, splineVars, designerVars, cameraVars>>

\* main from the miss test to gl_FragColor.
revolution_main_shade ==
    /\ fragPc = "intersected"
    /\ frag' = [rd |-> frag.rd, t |-> frag.t, dividedByZero |-> frag.dividedByZero,
                shaded |-> shadeRevolution(frag.rd, frag.t, uniforms.u_profileCoeffs[1],
                                           uniforms.u_profileCoeffs[2])]
    /\ fragPc' = "done"
    /\ UNCHANGED <<props, uniforms, splineVars, designerVars, cameraVars>>

InitFragment ==
    /\ \/ /\ props \in Scenes
          /\ uniforms = NoUniforms
          /\ fragPc = "mounted"
       \/ /\ props = [component |-> "revolution"]
          /\ uniforms \in RevolutionScenes
          /\ fragPc = "uniforms set"
    /\ frag = NoFrag
    /\ SplineIdle
    /\ DesignerIdle
    /\ CameraIdle

NextFragment ==
    \/ render \/ main_begin \/ main_loop \/ main_exit \/ main_shade
    \/ revolution_main_intersect \/ revolution_main_shade

SpecFragment == InitFragment /\ [][NextFragment]_vars

(***************************************************************************)
(* solveQuartic on polynomials with known roots                            *)
(* The inputs are given in factored form,                                  *)
(*   lead * (t - roots[1]) ... (t - roots[n]) * (t^2 + u t + v) ...        *)
(* with u^2 < 4 v in each quadratic factor, so that the real roots of the  *)
(* polynomial are exactly the listed ones; solveQuartic receives the       *)
(* expanded coefficients c0..c4.                                           *)
(***************************************************************************)
MaxRoot == 3

Leads == {1, 2}
RootLists ==
    { s \in UNION { [1..n -> (-MaxRoot)..MaxRoot] : n \in 0..4 } :
        \A k \in 1..(Len(s) - 1) : s[k] <= s[k + 1] }
Definite == { <<0, 1>>, <<2, 2>>, <<1, 1>> }
DefiniteLists ==
    { s \in UNION { [1..n -> Definite] : n \in 0..2 } :
        \A k \in 1..(Len(s) - 1) : s[k][1] <= s[k + 1][1] }

Factored ==
    { [lead |-> l, roots |-> rs, quads |-> qs] :
        l \in Leads, rs \in RootLists, qs \in DefiniteLists }

\* <<c0, c1, c2, c3, c4>> times (t - r)
timesLinear(c, r) ==
    [k \in 1..5 |-> (IF k > 1 THEN c[k - 1] ELSE 0) - r * c[k]]

\* <<c0, c1, c2, c3, c4>> times (t^2 + u t + v)
timesQuadratic(c, q) ==
    [k \in 1..5 |-> (IF k > 2 THEN c[k - 2] ELSE 0)
                     + q[1] * (IF k > 1 THEN c[k - 1] ELSE 0) + q[2] * c[k]]

RECURSIVE timesRoots(_, _)
timesRoots(c, rs) ==
    IF rs = <<>> THEN c ELSE timesRoots(timesLinear(c, Head(rs)), Tail(rs))

RECURSIVE timesQuads(_, _)
timesQuads(c, qs) ==
    IF qs = <<>> THEN c ELSE timesQuads(timesQuadratic(c, Head(qs)), Tail(qs))

\* The coefficients <<c0, ..., c4>> of a factored polynomial.
expanded(f) == timesQuads(timesRoots(<<f.lead, 0, 0, 0, 0>>, f.roots), f.quads)

QuarticInputs == { f \in Factored : Len(f.roots) + 2 * Len(f.quads) <= 4 }

\* t = solveQuartic(c0, c1, c2, c3, c4)
solveQuarticAt(c) == solveQuartic(RInt(c[1]), RInt(c[2]), RInt(c[3]), RInt(c[4]), RInt(c[5]))

exactQuarticAt(c) == exactQuartic(RInt(c[1]), RInt(c[2]), RInt(c[3]), RInt(c[4]), RInt(c[5]))

\* A call of solveQuartic whose square and cube roots are all rational.
callSolveQuartic ==
    /\ fragPc = "coefficients"
    /\ exactQuarticAt(frag.c) = TRUE
    /\ frag' = [frag EXCEPT !.t = solveQuarticAt(frag.c)]
    /\ fragPc' = "returned"
    /\ UNCHANGED <<props, uniforms, splineVars, designerVars, cameraVars>>

InitQuartic ==
    /\ props = [component |-> "solveQuartic"]
    /\ uniforms = NoUniforms
    /\ \E f \in QuarticInputs :
          frag = [roots |-> f.roots, c |-> expanded(f), t |-> RZero]
    /\ fragPc = "coefficients"
    /\ SplineIdle
    /\ DesignerIdle
    /\ CameraIdle

NextQuartic == callSolveQuartic

SpecQuartic == InitQuartic /\ [][NextQuartic]_vars

(***************************************************************************)
(* The ray-traced components with segment lists of any length              *)
(*   "RayTracedMirror"           src/src/RayTracedMirror.jsx               *)
(*   "frontend/RayTracedMirror"  the RayTracedMirror of src/unnamed/part_005 *)
(*   "SimpleWebcam"              frontend/src/SimpleWebcam.jsx             *)
(***************************************************************************)
MaxSegments == 18

\* n flat segments dividing the mirror's height -2..2 evenly.
FlatProfile(n) ==
    [k \in 1..n |-> Seg(R(4 * (k - 1) - 2 * n, n), R(4 * k - 2 * n, n), RZero, RZero, RZero)]

UploadScene(component, n) ==
    [component |-> component, curveSegments |-> FlatProfile(n),
     mirrorDist |-> R(7, 2), mirrorHalfWidth |-> R(2, 1),
     mirrorHalfHeight |-> R(2, 1),
     imagePlaneDist |-> R(1, 1), imageSizeX |-> R(8, 1), imageSizeY |-> R(6, 1)]

\* Control depths z0, z1, z2 (in eighths) of a segment of height zero.
DegenerateDepths == { <<0, 0, 0>>, <<-2, -2, -2>>, <<-2, -4, -2>>, <<0, -4, -8>>, <<1, 0, 1>> }

\* A profile whose middle segment has yMax = yMin.
DegenerateScene(component, z) ==
    [UploadScene(component, 0) EXCEPT
        !.curveSegments = << Seg(R(-2, 1), RZero, RZero, RZero, RZero),
                             Seg(RZero, RZero, R(z[1], 8), R(z[2], 8), R(z[3], 8)),
                             Seg(RZero, R(2, 1), RZero, RZero, RZero) >>]

UploadScenes ==
    { UploadScene(c, n) : c \in {"RayTracedMirror", "frontend/RayTracedMirror"},
                          n \in 0..MaxSegments }
    \cup { DegenerateScene(c, z) : c \in {"RayTracedMirror", "frontend/RayTracedMirror"},
                                   z \in DegenerateDepths }
    \cup { SimpleWebcamScene(s[1], s[2]) : s \in SimpleWebcamStates }

InitUpload ==
    /\ props \in UploadScenes
    /\ uniforms = NoUniforms
    /\ frag = NoFrag
    /\ fragPc = "mounted"
    /\ SplineIdle
    /\ DesignerIdle
    /\ CameraIdle

NextUpload == render \/ main_begin \/ main_loop \/ main_exit

SpecUpload == InitUpload /\ [][NextUpload]_vars

(***************************************************************************)
(* Properties of the rendering pipeline (checked under SpecRender)         *)
(***************************************************************************)
polyAt(p, y) == RAdd(RAdd(RMul(RMul(p.a, y), y), RMul(p.b, y)), p.c)

Uploaded == fragPc # "mounted"
RayChosen == fragPc \in {"loop", "hit", "miss"}
FragmentDone == fragPc \in {"hit", "miss"}

\* Real roots of segment k's equation qA t^2 + qB t + qC = 0 along the ray.
realRoots(q) ==
    IF q[1] = RZero
    THEN IF q[2] = RZero THEN {} ELSE {RDiv(RNeg(q[3]), q[2])}
    ELSE IF RLt(discriminant(q), RZero) THEN {}
    ELSE {RDiv(RSub(RNeg(q[2]), RSqrt(discriminant(q))), RMul(RInt(2), q[1])),
          RDiv(RAdd(RNeg(q[2]), RSqrt(discriminant(q))), RMul(RInt(2), q[1]))}

RootsOf(k) ==
    realRoots(rayCoeffs(uniforms.u_segments[k].a, uniforms.u_segments[k].b,
                        uniforms.u_segments[k].c, Origin, frag.rd))

\* t puts the ray on segment k's surface z = a y^2 + b y + c + mirrorDist.
OnSurface(k, t) ==
    RAdd(polyAt(uniforms.u_segments[k], RMul(t, frag.rd[2])), uniforms.u_mirrorDist)
        = RMul(t, frag.rd[3])

InDomain(k, t) ==
    /\ RLe(uniforms.u_segments[k].yMin, RMul(t, frag.rd[2]))
    /\ RLe(RMul(t, frag.rd[2]), segmentYMax(k - 1))

\* <<k, t>>: a root of segment k beyond 0.001, inside the segment's domain
\* and inside the mirror's width.
AdmissibleHits ==
    UNION { { <<k, t>> : t \in { u \in RootsOf(k) :
                                   /\ RLt(TMin001, u)
                                   /\ InDomain(k, u)
                                   /\ RLe(RAbs(RMul(u, frag.rd[1])),
                                          uniforms.u_mirrorHalfWidth) } }
            : k \in 1..uniforms.u_numSegments }

\* C1: when the segment loop has finished, the reported hit is an admissible
\* root (t > 0.001, hit y inside the segment's [yMin, yMax], |hit x| <=
\* mirrorHalfWidth) and no admissible root of any segment has a smaller t;
\* a miss (bestSeg = -1) is reported only when there is no admissible root.
C1_NearestAdmissibleRoot ==
    FragmentDone =>
        /\ \A k \in 1..uniforms.u_numSegments : \A t \in RootsOf(k) : OnSurface(k, t)
        /\ IF AdmissibleHits = {}
           THEN fragPc = "miss" /\ frag.bestSeg = -1
           ELSE /\ fragPc = "hit"
                /\ <<frag.bestSeg + 1, frag.bestT>> \in AdmissibleHits
                /\ \A h \in AdmissibleHits : RLe(frag.bestT, h[2])

\* A hit in a later segment whose equation has a smaller root beyond 0.001
\* that had to be passed over (it lies outside the segment's domain).
C1_Witness ==
    /\ fragPc = "hit"
    /\ frag.bestSeg >= 1
    /\ \E t \in RootsOf(frag.bestSeg + 1) : RLt(TMin001, t) /\ RLt(t, frag.bestT)

FlatSegments ==
    { k \in 1..uniforms.u_numSegments :
        uniforms.u_segments[k].a = RZero /\ uniforms.u_segments[k].b = RZero }

flatT(k) == RDiv(RAdd(uniforms.u_segments[k].c, uniforms.u_mirrorDist), frag.rd[3])

shaderT(k) ==
    intersectSegment(uniforms.u_segments[k].a, uniforms.u_segments[k].b,
                     uniforms.u_segments[k].c, uniforms.u_segments[k].yMin,
                     segmentYMax(k - 1), Origin, frag.rd)

debugShaderT(k) ==
    intersectSegment_debugBuild(uniforms.u_segments[k].a, uniforms.u_segments[k].b,
                     uniforms.u_segments[k].c, uniforms.u_segments[k].yMin,
                     segmentYMax(k - 1), Origin, frag.rd)

\* C2 as stated: for a flat segment (a = b = 0) and any ray from the origin
\* with direction.z > 0, intersectSegment returns exactly
\* t = (c + mirrorDist) / direction.z.
C2_FlatAlwaysAnalytic ==
    RayChosen =>
        \A k \in FlatSegments :
            RLt(RZero, frag.rd[3]) =>
                shaderT(k) = flatT(k) /\ debugShaderT(k) = flatT(k)

\* C2 amended: for a flat segment and a ray from the origin with
\* direction.z > 0, intersectSegment returns exactly
\* t = (c + mirrorDist) / direction.z when t >= 0.001 and the hit height
\* t * direction.y lies in the segment's [yMin, yMax]; otherwise it returns -1.
C2_FlatAnalyticInDomain ==
    RayChosen =>
        \A k \in FlatSegments :
            RLt(RZero, frag.rd[3]) =>
                LET expected == IF RLe(TMin001, flatT(k)) /\ InDomain(k, flatT(k))
                                THEN flatT(k) ELSE MinusOne
                IN  shaderT(k) = expected /\ debugShaderT(k) = expected

\* An oblique ray meeting a flat segment inside its domain.
C2_Witness ==
    /\ RayChosen
    /\ \E k \in FlatSegments :
          /\ frag.rd[2] # RZero
          /\ RLe(TMin001, flatT(k)) /\ InDomain(k, flatT(k))
          /\ shaderT(k) = flatT(k)

\* C3: for every uploaded segment with yMin < yMax, the polynomial
\* z(y) = a y^2 + b y + c satisfies z(yMin) = z0, z(yMax) = z2 and
\* z((yMin + yMax) / 2) = (z0 + 2 z1 + z2) / 4.
C3_PolynomialInterpolates ==
    Uploaded =>
        \A k \in 1..uniforms.u_numSegments :
            LET seg == props.curveSegments[k]
                p == uniforms.u_segments[k]
            IN  RLt(seg.yMin, seg.yMax) =>
                  /\ polyAt(p, seg.yMin) = seg.z0
                  /\ polyAt(p, seg.yMax) = seg.z2
                  /\ polyAt(p, RDiv(RAdd(seg.yMin, seg.yMax), RInt(2)))
                       = RDiv(RAdd(RAdd(seg.z0, RMul(RInt(2), seg.z1)), seg.z2),
                              RInt(4))

\* A curved segment uploaded by each of the two components, one of them with
\* a domain that does not start at 0.
C3_Witness ==
    /\ Uploaded
    /\ \E k \in 1..uniforms.u_numSegments :
          /\ uniforms.u_segments[k].a # RZero
          /\ uniforms.u_segments[k].b # RZero
          /\ uniforms.u_segments[k].yMin # RZero
          /\ RLt(props.curveSegments[k].yMin, props.curveSegments[k].yMax)

(***************************************************************************)
(* Catmull-Rom spline -> quadratic Beziers (splineToQuadraticBezier.js)    *)
(* Points are records [x, y] of floats; a cubic is [start, cp1, cp2, end], *)
(* a quadratic [start, cp, end].                                           *)
(***************************************************************************)
MaxDepth == 12
samples == 20

Pt(x, y) == [x |-> x, y |-> y]
Half == FLit(1, 2)

catmullRomToCubicBezier(p0, p1, p2, p3) ==
    [start |-> Pt(p1.x, p1.y),
     cp1 |-> Pt(FAdd(p1.x, FDiv(FSub(p2.x, p0.x), FInt(6))),
                FAdd(p1.y, FDiv(FSub(p2.y, p0.y), FInt(6)))),
     cp2 |-> Pt(FSub(p2.x, FDiv(FSub(p3.x, p1.x), FInt(6))),
                FSub(p2.y, FDiv(FSub(p3.y, p1.y), FInt(6)))),
     end |-> Pt(p2.x, p2.y)]

\* mt3 * s + 3 * mt2 * t * c1 + 3 * mt * t2 * c2 + t3 * e
cubicCoordinate(t, t2, t3, mt, mt2, mt3, s, c1, c2, e) ==
    FAdd(FAdd(FAdd(FMul(mt3, s),
                   FMul(FMul(FMul(FInt(3), mt2), t), c1)),
              FMul(FMul(FMul(FInt(3), mt), t2), c2)),
         FMul(t3, e))

cubicPoint(cubic, t, t2, t3, mt, mt2, mt3) ==
    Pt(cubicCoordinate(t, t2, t3, mt, mt2, mt3,
                       cubic.start.x, cubic.cp1.x, cubic.cp2.x, cubic.end.x),
       cubicCoordinate(t, t2, t3, mt, mt2, mt3,
                       cubic.start.y, cubic.cp1.y, cubic.cp2.y, cubic.end.y))

cubicPowers(cubic, t, t2, mt, mt2) ==
    cubicPoint(cubic, t, t2, FMul(t2, t), mt, mt2, FMul(mt2, mt))

evaluateCubicBezier(cubic, t) ==
    cubicPowers(cubic, t, FMul(t, t), FSub(FInt(1), t),
                FMul(FSub(FInt(1), t), FSub(FInt(1), t)))

distance(p1, p2) ==
    FSqrt(FAdd(FMul(FSub(p2.x, p1.x), FSub(p2.x, p1.x)),
               FMul(FSub(p2.y, p1.y), FSub(p2.y, p1.y))))

\* (3 * cp1 + 3 * cp2 - start - end) / 4
simpleControl(s, c1, c2, e) ==
    FDiv(FSub(FSub(FAdd(FMul(FInt(3), c1), FMul(FInt(3), c2)), s), e), FInt(4))

cubicToQuadraticSimple(cubic) ==
    [start |-> cubic.start,
     cp |-> Pt(simpleControl(cubic.start.x, cubic.cp1.x, cubic.cp2.x, cubic.end.x),
               simpleControl(cubic.start.y, cubic.cp1.y, cubic.cp2.y, cubic.end.y)),
     end |-> cubic.end]

\* mt2 * s + 2 * mt * t * c + t2 * e
quadraticCoordinate(t, t2, mt, mt2, s, c, e) ==
    FAdd(FAdd(FMul(mt2, s), FMul(FMul(FMul(FInt(2), mt), t), c)), FMul(t2, e))

quadraticPoint(quad, t, t2, mt, mt2) ==
    Pt(quadraticCoordinate(t, t2, mt, mt2, quad.start.x, quad.cp.x, quad.end.x),
       quadraticCoordinate(t, t2, mt, mt2, quad.start.y, quad.cp.y, quad.end.y))

evaluateQuadraticBezier(quad, t) ==
    quadraticPoint(quad, t, FMul(t, t), FSub(FInt(1), t),
                   FMul(FSub(FInt(1), t), FSub(FInt(1), t)))

\* The error at sample i, t = i / samples.
sampleError(cubic, quadratic, i) ==
    distance(evaluateCubicBezier(cubic, FDiv(FInt(i), FInt(samples))),
             evaluateQuadraticBezier(quadratic, FDiv(FInt(i), FInt(samples))))

RECURSIVE errorLoop_lastSample(_, _, _, _)
RECURSIVE errorLoop(_, _, _, _)

\* i++ with the running maximum settled; a distance is never negative.
nextSample(cubic, quadratic, i, maxError) ==
    IF maxError[1] >= 0 THEN errorLoop(cubic, quadratic, i + 1, maxError)
    ELSE maxError

\* Fault variant of errorLoop: keeps the last sample's error, not the maximum.
errorLoop_lastSample(cubic, quadratic, i, maxError) ==
    IF i > samples THEN maxError
    ELSE nextSample(cubic, quadratic, i, sampleError(cubic, quadratic, i))

\* for (let i = 0; i <= samples; i++) maxError = Math.max(maxError, error)
errorLoop(cubic, quadratic, i, maxError) ==
    IF i > samples THEN maxError
    ELSE nextSample(cubic, quadratic, i,
                    FMax(maxError, sampleError(cubic, quadratic, i)))

calculateApproximationError(cubic, quadratic) == errorLoop(cubic, quadratic, 0, FZero)

\* a + t * (b - a), per coordinate
lerp(a, b, t) ==
    Pt(FAdd(a.x, FMul(t, FSub(b.x, a.x))), FAdd(a.y, FMul(t, FSub(b.y, a.y))))

deCasteljau3(cubic, p01, p23, p012, p123, p0123) ==
    <<[start |-> cubic.start, cp1 |-> p01, cp2 |-> p012, end |-> p0123],
      [start |-> p0123, cp1 |-> p123, cp2 |-> p23, end |-> cubic.end]>>

deCasteljau2(cubic, t, p01, p23, p012, p123) ==
    deCasteljau3(cubic, p01, p23, p012, p123, lerp(p012, p123, t))

deCasteljau1(cubic, t, p01, p12, p23) ==
    deCasteljau2(cubic, t, p01, p23, lerp(p01, p12, t), lerp(p12, p23, t))

\* <<left, right>>
subdivideCubic(cubic, t) ==
    deCasteljau1(cubic, t, lerp(cubic.start, cubic.cp1, t),
                 lerp(cubic.cp1, cubic.cp2, t), lerp(cubic.cp2, cubic.end, t))

(***************************************************************************)
(* cubicToQuadraticAdaptive, one loop iteration at a time                  *)
(***************************************************************************)
StackEntry(cubic, depth, lo, hi) ==
    [cubic |-> cubic, depth |-> depth, lo |-> lo, hi |-> hi]

\* Fault variant of pushHalves: left is pushed first, so right is popped first.
pushHalves_leftFirst(rest, cur, halves) ==
    Append(Append(rest,
                  StackEntry(halves[1], cur.depth + 1, cur.lo, (cur.lo + cur.hi) \div 2)),
           StackEntry(halves[2], cur.depth + 1, (cur.lo + cur.hi) \div 2, cur.hi))

\* stack.push(right); stack.push(left)
pushHalves(rest, cur, halves) ==
    Append(Append(rest,
                  StackEntry(halves[2], cur.depth + 1, (cur.lo + cur.hi) \div 2, cur.hi)),
           StackEntry(halves[1], cur.depth + 1, cur.lo, (cur.lo + cur.hi) \div 2))

\* error <= tolerance
accepts(cubic, quad, tol) == FLe(calculateApproximationError(cubic, quad), tol)

\* The body of the while loop after the pop: accept quad or subdivide.
acceptOrSubdivide(rest, cur, quad, res, fit, tol) ==
    IF accepts(cur.cubic, quad, tol)
    THEN [stack |-> rest, result |-> Append(res, quad), fitted |-> Append(fit, cur)]
    ELSE [stack |-> pushHalves(rest, cur, subdivideCubic(cur.cubic, Half)),
          result |-> res, fitted |-> fit]

whileBody(stk, res, fit, tol) ==
    acceptOrSubdivide(SubSeq(stk, 1, Len(stk) - 1), stk[Len(stk)],
                      cubicToQuadraticSimple(stk[Len(stk)].cubic), res, fit, tol)

Max(m, n) == IF m > n THEN m ELSE n

\* The cubic of segment i (0-based), from points[Math.max(0, i - 1)],
\* points[i], points[i + 1], points[Math.min(points.length - 1, i + 2)].
segmentCubic(pts, i) ==
    catmullRomToCubicBezier(pts[Max(0, i - 1) + 1], pts[i + 1], pts[i + 2],
                            pts[Min(Len(pts) - 1, i + 2) + 1])

(***************************************************************************)
(* Inputs of the approximator: anchor lists in canvas pixels and           *)
(* tolerances, written <<points, n, d>> for tolerance n / d.               *)
(***************************************************************************)
CanvasPoint(xy) == Pt(FInt(xy[1]), FInt(xy[2]))

SplineInputs ==
    { << <<>>, 1, 1 >>,
      << << <<400, 50>> >>, 1, 1 >>,
      << << <<400, 50>>, <<400, 550>> >>, 1, 4 >>,
      << << <<400, 50>>, <<300, 100>>, <<400, 550>> >>, 1, 2 >>,
      << << <<400, 50>>, <<300, 100>>, <<500, 500>>, <<400, 550>> >>, 1, 1 >>,
      << << <<400, 50>>, <<300, 100>>, <<500, 500>>, <<400, 550>> >>, 1, 4 >>,
      << << <<400, 50>>, <<350, 150>>, <<380, 250>>, <<400, 300>> >>, 1, 4 >>,
      << << <<400, 50>>, <<350, 150>>, <<380, 250>>, <<400, 300>> >>, 2, 1 >>,
      << << <<400, 50>>, <<402, 52>>, <<401, 55>> >>, 2, 1 >>,
      << << <<400, 50>>, <<401, 51>> >>, 1, 16 >> }

(***************************************************************************)
(* Actions of splineToQuadraticBezier                                      *)
(***************************************************************************)
\* if (points.length < 2) return []; otherwise enter the segment loop.
splineToQuadraticBezier_begin ==
    /\ splinePc = "call"
    /\ splinePc' = IF Len(points) < 2 THEN "done" ELSE "loop"
    /\ UNCHANGED <<points, tolerance, iSeg, quadratics, stack, result, fitted>>
    /\ UNCHANGED <<renderVars, designerVars, cameraVars>>

\* Loop body up to the call of cubicToQuadraticAdaptive: stack = [cubic].
splineToQuadraticBezier_segment ==
    /\ splinePc = "loop"
    /\ iSeg < Len(points) - 1
    /\ stack' = <<StackEntry(segmentCubic(points, iSeg), 0, 0, 2^MaxDepth)>>
    /\ result' = <<>>
    /\ fitted' = <<>>
    /\ splinePc' = "adaptive"
    /\ UNCHANGED <<points, tolerance, iSeg, quadratics>>
    /\ UNCHANGED <<renderVars, designerVars, cameraVars>>

setLoopState(next) ==
    /\ stack' = next.stack
    /\ result' = next.result
    /\ fitted' = next.fitted

\* One iteration of while (stack.length > 0).
cubicToQuadraticAdaptive_iteration ==
    /\ splinePc = "adaptive"
    /\ stack # <<>>
    /\ stack[Len(stack)].depth < MaxDepth
    /\ setLoopState(whileBody(stack, result, fitted, tolerance))
    /\ UNCHANGED <<points, tolerance, iSeg, quadratics, splinePc>>
    /\ UNCHANGED <<renderVars, designerVars, cameraVars>>

\* return result; quadratics.push(...segmentQuads); i++
cubicToQuadraticAdaptive_return ==
    /\ splinePc = "adaptive"
    /\ stack = <<>>
    /\ quadratics' = quadratics \o result
    /\ iSeg' = iSeg + 1
    /\ splinePc' = "loop"
    /\ UNCHANGED <<points, tolerance, stack, result, fitted>>
    /\ UNCHANGED <<renderVars, designerVars, cameraVars>>

\* return quadratics
splineToQuadraticBezier_return ==
    /\ splinePc = "loop"
    /\ ~(iSeg < Len(points) - 1)
    /\ splinePc' = "done"
    /\ UNCHANGED <<points, tolerance, iSeg, quadratics, stack, result, fitted>>
    /\ UNCHANGED <<renderVars, designerVars, cameraVars>>

RenderIdle ==
    /\ props = [component |-> "none"] /\ uniforms = NoUniforms
    /\ frag = NoFrag /\ fragPc = "idle"

InitSpline ==
    /\ \E inp \in SplineInputs :
          /\ points = [k \in 1..Len(inp[1]) |-> CanvasPoint(inp[1][k])]
          /\ tolerance = FLit(inp[2], inp[3])
    /\ iSeg = 0
    /\ quadratics = <<>>
    /\ stack = <<>>
    /\ result = <<>>
    /\ fitted = <<>>
    /\ splinePc = "call"
    /\ RenderIdle
    /\ DesignerIdle
    /\ CameraIdle

NextSpline ==
    \/ splineToQuadraticBezier_begin
    \/ splineToQuadraticBezier_segment
    \/ cubicToQuadraticAdaptive_iteration
    \/ cubicToQuadraticAdaptive_return
    \/ splineToQuadraticBezier_return

SpecSpline == InitSpline /\ [][NextSpline]_vars

(***************************************************************************)
(* Properties of the approximator (checked under SpecSpline)               *)
(***************************************************************************)
InAdaptive == splinePc = "adaptive"
\* cubicToQuadraticAdaptive is about to return result.
AtReturn == splinePc = "adaptive" /\ stack = <<>>
SplineDone == splinePc = "done"

\* C6: every quadratic in cubicToQuadraticAdaptive's result list, the
\* returned list included, deviates from the (sub-)cubic it was fitted to by
\* at most the tolerance at each of the 21 samples t = i/20, i = 0..20.
C6_SamplesWithinTolerance ==
    InAdaptive =>
        \A k \in 1..Len(result) : \A i \in 0..samples :
            FLe(sampleError(fitted[k].cubic, result[k], i), tolerance)

\* A returned list with quadratics fitted to sub-cubics of different depths,
\* one of them off its cubic at some sample.
C6_Witness ==
    /\ AtReturn
    /\ \E j, k \in 1..Len(result) :
          /\ fitted[j].depth >= 1
          /\ fitted[k].depth > fitted[j].depth
          /\ \E i \in 0..samples :
                FLt(FZero, sampleError(fitted[k].cubic, result[k], i))

\* end[k] == start[k+1] along a list of quadratics.
Contiguous(quads) ==
    \A k \in 1..(Len(quads) - 1) : quads[k].end = quads[k + 1].start

\* C7: the list cubicToQuadraticAdaptive returns is in increasing parameter
\* order (the fitted sub-cubics tile [0, 1] from left to right) and
\* contiguous: the first quadratic starts at the cubic's start, the last ends
\* at the cubic's end, and end[k] == start[k+1]; the concatenation
\* splineToQuadraticBezier returns runs contiguously from the first point to
\* the last.
C7_OrderedContiguous ==
    /\ AtReturn =>
          /\ result # <<>>
          /\ result[1].start = segmentCubic(points, iSeg).start
          /\ result[Len(result)].end = segmentCubic(points, iSeg).end
          /\ Contiguous(result)
          /\ fitted[1].lo = 0
          /\ fitted[Len(fitted)].hi = 2^MaxDepth
          /\ \A k \in 1..(Len(fitted) - 1) : fitted[k].hi = fitted[k + 1].lo
          /\ \A k \in 1..Len(fitted) : fitted[k].lo < fitted[k].hi
    /\ (SplineDone /\ Len(points) >= 2) =>
          /\ quadratics # <<>>
          /\ quadratics[1].start = points[1]
          /\ quadratics[Len(quadratics)].end = points[Len(points)]
          /\ Contiguous(quadratics)

\* A finished conversion of several spline segments, each subdivided.
C7_Witness ==
    /\ SplineDone
    /\ Len(points) >= 3
    /\ Len(quadratics) >= 2 * (Len(points) - 1)

\* The cubic on top of the stack is rejected and is its own left half.
SelfReproducingCubic ==
    /\ InAdaptive
    /\ stack # <<>>
    /\ ~accepts(stack[Len(stack)].cubic,
                cubicToQuadraticSimple(stack[Len(stack)].cubic), tolerance)
    /\ subdivideCubic(stack[Len(stack)].cubic, Half)[1] = stack[Len(stack)].cubic

\* C8: cubicToQuadraticAdaptive terminates for every cubic and every
\* tolerance > 0.  A cubic that is rejected and is its own left half is
\* popped, rejected and pushed again in every later iteration, so the stack
\* never empties: termination requires that no such cubic is ever on top of
\* the stack.
C8_TerminatesNoSelfReproducingCubic == ~SelfReproducingCubic

\* C9: no cubic is subdivided more than 10 levels deep: every entry of the
\* work stack and every fitted sub-cubic has depth at most 10.
C9_DepthCeiling ==
    /\ \A k \in 1..Len(stack) : stack[k].depth <= 10
    /\ \A k \in 1..Len(fitted) : fitted[k].depth <= 10


(***************************************************************************)
(* The curve designers and the viewport                                    *)
(* (AsymmetricMirrorBezier.jsx, splineToQuadraticBezier.example.js)        *)
(*                                                                         *)
(* Mouse positions are whole canvas pixels, so the designers' points keep  *)
(* integer coordinates; exportData computes in floats.                     *)
(***************************************************************************)
LINE_X == 400
LINE_TOP == 50
LINE_BOTTOM == 550
MAX_POINTS == 5
MIN_VERTICAL_SPACING == 50
MIN_DISTANCE_FROM_VERTICAL == 30
MAX_Y_POSITION == LINE_TOP + 50
MAX_LEFT_DISTANCE == 200
MAX_RIGHT_DISTANCE == 200

\* Cap on nextIdRef.current, that is on the points ever added in one run.
MaxIds == 2
MaxAnchorIds == 5
MaxHistory == 2

Quad(start, cp, end) == [start |-> start, cp |-> cp, end |-> end]

\* (a + b) / 2, per coordinate
midpoint(a, b) ==
    Pt(FDiv(FAdd(a.x, b.x), FInt(2)), FDiv(FAdd(a.y, b.y), FInt(2)))

\* Fault variant of throughControl: the factor 0.5 is dropped.
throughControl_fullSum(userPt, start, end) ==
    Pt(FSub(FMul(FInt(2), userPt.x), FAdd(start.x, end.x)),
       FSub(FMul(FInt(2), userPt.y), FAdd(start.y, end.y)))

\* 2 * userPt - 0.5 * (start + end): the arc passes through userPt at t = 0.5
throughControl(userPt, start, end) ==
    Pt(FSub(FMul(FInt(2), userPt.x), FMul(Half, FAdd(start.x, end.x))),
       FSub(FMul(FInt(2), userPt.y), FMul(Half, FAdd(start.y, end.y))))

\* from + (to - from) * 0.67
biasedControl(from, to) ==
    Pt(FAdd(from.x, FMul(FSub(to.x, from.x), FLit(67, 100))),
       FAdd(from.y, FMul(FSub(to.y, from.y), FLit(67, 100))))

\* Junction after userPoints[i] (1-based): midpoint to the next point, or
\* the bottom of the line after the last one.
junctionAfter(userPoints, i, bottom) ==
    IF i < Len(userPoints) THEN midpoint(userPoints[i], userPoints[i + 1])
    ELSE bottom

\* The two arcs of the S-curve of userPoints[i], i > 1.
sCurve(userPt, junctionBefore, after) ==
    << Quad(junctionBefore, biasedControl(junctionBefore, userPt), userPt),
       Quad(userPt, biasedControl(userPt, after), after) >>

\* for (let i = 1; i < n; i++) { ... beziers.push(...); beziers.push(...) }
RECURSIVE sCurves(_, _, _)
sCurves(userPoints, i, bottom) ==
    IF i > Len(userPoints) THEN <<>>
    ELSE sCurve(userPoints[i], midpoint(userPoints[i - 1], userPoints[i]),
                junctionAfter(userPoints, i, bottom))
         \o sCurves(userPoints, i + 1, bottom)

\* First arc: top -> junction after the first point, through it at t = 0.5.
firstArc(top, firstPt, after) == Quad(top, throughControl(firstPt, top, after), after)

pointsToQuadraticBeziersOf(top, bottom, userPoints) ==
    IF Len(userPoints) = 0
    THEN << Quad(top, Pt(top.x, FDiv(FAdd(top.y, bottom.y), FInt(2))), bottom) >>
    ELSE IF Len(userPoints) = 1
    THEN << firstArc(top, userPoints[1], bottom) >>
    ELSE << firstArc(top, userPoints[1], junctionAfter(userPoints, 1, bottom)) >>
         \o sCurves(userPoints, 2, bottom)

\* LINE_X, LINE_TOP from anchorPoints[0], LINE_BOTTOM from the last anchor.
pointsToQuadraticBeziers(anchorPoints, userPoints) ==
    pointsToQuadraticBeziersOf(anchorPoints[1],
                               Pt(anchorPoints[1].x, anchorPoints[Len(anchorPoints)].y),
                               userPoints)

(***************************************************************************)
(* splineToQuadraticBezier as the designers call it: run to completion.    *)
(***************************************************************************)
RECURSIVE whileLoop(_, _, _, _)
whileStep(next, tol) == whileLoop(next.stack, next.result, next.fitted, tol)

\* while (stack.length > 0) { ... } return result
whileLoop(stk, res, fit, tol) ==
    IF stk = <<>> THEN res ELSE whileStep(whileBody(stk, res, fit, tol), tol)

cubicToQuadraticAdaptive(cubic, tol) ==
    whileLoop(<<StackEntry(cubic, 0, 0, 2^MaxDepth)>>, <<>>, <<>>, tol)

\* for (let i = 0; i < points.length - 1; i++) quadratics.push(...segmentQuads)
RECURSIVE segmentLoop(_, _, _, _)
segmentLoop(pts, tol, i, quads) ==
    IF i < Len(pts) - 1
    THEN segmentLoop(pts, tol, i + 1,
                     quads \o cubicToQuadraticAdaptive(segmentCubic(pts, i), tol))
    ELSE quads

splineToQuadraticBezier(pts, tol) ==
    IF Len(pts) < 2 THEN <<>> ELSE segmentLoop(pts, tol, 0, <<>>)

(***************************************************************************)
(* exportData of the two designers.  lineSegments is modelled for the      *)
(* straight line only: the viewport reads it only when quadraticBeziers is *)
(* empty, which a designer publishes only without points.                  *)
(***************************************************************************)
Top == CanvasPoint(<<LINE_X, LINE_TOP>>)
Bottom == CanvasPoint(<<LINE_X, LINE_BOTTOM>>)

\* Fault variant of userPointsOf: a point's id leaks into its x.
userPointsOf_withId(pts) ==
    [k \in 1..Len(pts) |-> CanvasPoint(<<pts[k].x + pts[k].id, pts[k].y>>)]

\* The x and y of the designer's points, as exportData reads them.
userPointsOf(pts) == [k \in 1..Len(pts) |-> CanvasPoint(<<pts[k].x, pts[k].y>>)]

\* samples.push({ x: LINE_X, y: LINE_TOP + (i / 30) * (LINE_BOTTOM - LINE_TOP) })
straightSample(i) ==
    Pt(FInt(LINE_X),
       FAdd(FInt(LINE_TOP),
            FMul(FDiv(FInt(i), FInt(30)), FSub(FInt(LINE_BOTTOM), FInt(LINE_TOP)))))

\* segs.push({ x1, y1, x2, y2 }) for consecutive samples i, i + 1 (0-based)
straightSegment(i) ==
    [x1 |-> straightSample(i).x, y1 |-> straightSample(i).y,
     x2 |-> straightSample(i + 1).x, y2 |-> straightSample(i + 1).y]

lineSegmentsOf(pts) ==
    IF Len(pts) = 0 THEN [i \in 1..30 |-> straightSegment(i - 1)] ELSE "sampled"

curveDataOf(pts, quadraticBeziers) ==
    [points |-> pts,
     lineSegments |-> lineSegmentsOf(pts),
     quadraticBeziers |-> quadraticBeziers,
     bounds |-> [x |-> FInt(LINE_X), yTop |-> FInt(LINE_TOP), yBottom |-> FInt(LINE_BOTTOM)]]

exportData_Asymmetric(pts) ==
    curveDataOf(pts, pointsToQuadraticBeziers(<<Top, Bottom>>, userPointsOf(pts)))

hybridBeziers(userPoints) ==
    IF Len(userPoints) = 0 THEN <<>>
    ELSE IF Len(userPoints) = 1 THEN << firstArc(Top, userPoints[1], Bottom) >>
    ELSE splineToQuadraticBezier(<<Top>> \o userPoints \o <<Bottom>>, FInt(1))

exportData_Hybrid(pts) == curveDataOf(pts, hybridBeziers(userPointsOf(pts)))

(***************************************************************************)
(* The designers that export sampled line segments.  A sample is the exact *)
(* value of the Catmull-Rom expression, a rational; the canvas coordinates *)
(* of the points are whole pixels.                                         *)
(***************************************************************************)
\* 0.5 * (2 p1 + (-p0 + p2) lt + (2 p0 - 5 p1 + 4 p2 - p3) lt^2
\*        + (-p0 + 3 p1 - 3 p2 + p3) lt^3) at lt = r / n
catmullRom(p0, p1, p2, p3, r, n) ==
    R(2 * p1 * n * n * n + (p2 - p0) * r * n * n
        + (2 * p0 - 5 * p1 + 4 * p2 - p3) * r * r * n
        + (3 * p1 - p0 - 3 * p2 + p3) * r * r * r,
      2 * n * n * n)

\* The sample in segment i (0-based) at lt = r / n.
splineIn(pts, i, r, n) ==
    [x |-> catmullRom(pts[Max(1, i)].x, pts[i + 1].x, pts[Min(Len(pts), i + 2)].x,
                      pts[Min(Len(pts), i + 3)].x, r, n),
     y |-> catmullRom(pts[Max(1, i)].y, pts[i + 1].y, pts[Min(Len(pts), i + 2)].y,
                      pts[Min(Len(pts), i + 3)].y, r, n)]

\* spline(pts, t), and sampleCurve(pts, t), at t = k / n
spline(pts, k, n) ==
    IF (k * (Len(pts) - 1)) \div n >= Len(pts) - 1
    THEN [x |-> RInt(pts[Len(pts)].x), y |-> RInt(pts[Len(pts)].y)]
    ELSE splineIn(pts, (k * (Len(pts) - 1)) \div n, (k * (Len(pts) - 1)) % n, n)

\* The n + 1 samples at t = 0, 1/n, ..., 1.
splineSamples(pts, n) == [k \in 1..(n + 1) |-> spline(pts, k - 1, n)]

\* { x: LINE_X, y: LINE_TOP + t * (LINE_BOTTOM - LINE_TOP) } at t = 0, ..., 1
straightSamples ==
    [k \in 1..31 |-> [x |-> RInt(LINE_X),
                      y |-> R(30 * LINE_TOP + (k - 1) * (LINE_BOTTOM - LINE_TOP), 30)]]

\* segs.push({ x1, y1, x2, y2 }) for each pair of consecutive samples
segs(sampled) ==
    [k \in 1..(Len(sampled) - 1) |->
        [x1 |-> sampled[k].x, y1 |-> sampled[k].y,
         x2 |-> sampled[k + 1].x, y2 |-> sampled[k + 1].y]]

xy(pts) == [k \in 1..Len(pts) |-> [x |-> pts[k].x, y |-> pts[k].y]]

\* [top, ...points, bottom]
all(pts) ==
    <<[x |-> LINE_X, y |-> LINE_TOP]>> \o xy(pts) \o <<[x |-> LINE_X, y |-> LINE_BOTTOM]>>

exportData_AssymMirrorDesigner(pts) ==
    [points |-> pts,
     lineSegments |-> segs(IF Len(pts) = 0 THEN straightSamples
                           ELSE splineSamples(all(pts), 30)),
     bounds |-> [x |-> LINE_X, yTop |-> LINE_TOP, yBottom |-> LINE_BOTTOM]]

\* [...points].reverse().map(p => ({ x: p.x, y: LINE_MIDDLE + (LINE_MIDDLE - p.y) }))
reflected(pts) ==
    [k \in 1..Len(pts) |->
        [x |-> pts[Len(pts) + 1 - k].x,
         y |-> LINE_MIDDLE + (LINE_MIDDLE - pts[Len(pts) + 1 - k].y)]]

\* [top, ...points, middlePoint, ...reflected, bottom]
allMirrored(pts, middle) ==
    <<[x |-> LINE_X, y |-> LINE_TOP]>> \o xy(pts) \o <<middle>> \o reflected(pts)
    \o <<[x |-> LINE_X, y |-> LINE_BOTTOM]>>

mirrorBounds ==
    [x |-> LINE_X, yTop |-> LINE_TOP, yMiddle |-> LINE_MIDDLE, yBottom |-> LINE_BOTTOM]

\* MirrorDesigner of frontend/src: null without points.
exportData_frontendMirrorDesigner(pts, middle) ==
    IF Len(pts) = 0 THEN null
    ELSE [points |-> pts, middlePoint |-> middle,
          lineSegments |-> segs(splineSamples(allMirrored(pts, middle), 30)),
          bounds |-> mirrorBounds]

canvasPoints(pts) == [k \in 1..Len(pts) |-> CanvasPoint(<<pts[k].x, pts[k].y>>)]

\* MirrorDesigner of src/src: the two boundary points alone without points.
exportData_MirrorDesigner(pts, middle) ==
    [points |-> pts, middlePoint |-> middle,
     lineSegments |-> segs(IF Len(pts) = 0 THEN straightSamples
                           ELSE splineSamples(allMirrored(pts, middle), 30)),
     quadraticBeziers |->
         splineToQuadraticBezier(canvasPoints(IF Len(pts) = 0 THEN all(pts)
                                              ELSE allMirrored(pts, middle)), FInt(1)),
     bounds |-> [x |-> FInt(LINE_X), yTop |-> FInt(LINE_TOP),
                 yMiddle |-> FInt(LINE_MIDDLE), yBottom |-> FInt(LINE_BOTTOM)]]

\* MirrorCurveDesigner: approximateWithLines, the value it hands to
\* setLineSegments.
approximateWithLines(pts) ==
    segs(splineSamples(all(pts), Min(30, Max(10, Len(all(pts)) * 6))))

exportData(kind, pts) ==
    IF kind = "Asymmetric" THEN exportData_Asymmetric(pts)
    ELSE IF kind = "Hybrid" THEN exportData_Hybrid(pts)
    ELSE exportData_AssymMirrorDesigner(pts)

(***************************************************************************)
(* MirrorViewport: curveData -> the segments handed to RayTracedMirror     *)
(***************************************************************************)
CurveSeg(yMin, yMax, z0, z1, z2) ==
    [yMin |-> yMin, yMax |-> yMax, z0 |-> z0, z1 |-> z1, z2 |-> z2]

FMin(a, b) == IF FLt(b, a) THEN b ELSE a

physicalHalfHeight == FInt(2)
physicalMaxDepth == FInt(1)

defaultSegment == << CurveSeg(FNeg(FLit(4, 10)), FLit(4, 10), FZero, FZero, FZero) >>

\* ((y - bounds.yTop) / canvasHeight) * (2 * physicalHalfHeight) - physicalHalfHeight
yPhysical(y, bounds) ==
    FSub(FMul(FDiv(FSub(y, bounds.yTop), FSub(bounds.yBottom, bounds.yTop)),
              FMul(FInt(2), physicalHalfHeight)),
         physicalHalfHeight)

\* -((bounds.x - x) / canvasWidth * physicalMaxDepth), canvasWidth = bounds.x
xDepth(x, bounds) ==
    FNeg(FMul(FDiv(FSub(bounds.x, x), bounds.x), physicalMaxDepth))

bezierSegment(bezier, bounds) ==
    CurveSeg(FMin(yPhysical(bezier.start.y, bounds), yPhysical(bezier.end.y, bounds)),
             FMax(yPhysical(bezier.start.y, bounds), yPhysical(bezier.end.y, bounds)),
             xDepth(bezier.start.x, bounds), xDepth(bezier.cp.x, bounds),
             xDepth(bezier.end.x, bounds))

convertBezierCurvesToSegments(curveData) ==
    IF curveData = null \/ curveData.quadraticBeziers = <<>>
    THEN defaultSegment
    ELSE [i \in 1..Len(curveData.quadraticBeziers) |->
            bezierSegment(curveData.quadraticBeziers[i], curveData.bounds)]

\* z0 goes with yMin, z2 with yMax; z1 is their midpoint.
orientedSegment(y1, y2, x1Depth, x2Depth) ==
    IF FLe(y1, y2)
    THEN CurveSeg(FMin(y1, y2), FMax(y1, y2), x1Depth,
                  FDiv(FAdd(x1Depth, x2Depth), FInt(2)), x2Depth)
    ELSE CurveSeg(FMin(y1, y2), FMax(y1, y2), x2Depth,
                  FDiv(FAdd(x2Depth, x1Depth), FInt(2)), x1Depth)

lineSegment(seg, bounds) ==
    orientedSegment(yPhysical(seg.y1, bounds), yPhysical(seg.y2, bounds),
                    xDepth(seg.x1, bounds), xDepth(seg.x2, bounds))

convertCurveDataToSegments(curveData) ==
    IF curveData # null /\ curveData.quadraticBeziers # <<>>
    THEN convertBezierCurvesToSegments(curveData)
    ELSE IF curveData = null \/ curveData.lineSegments = <<>>
    THEN defaultSegment
    ELSE [i \in 1..Len(curveData.lineSegments) |->
            lineSegment(curveData.lineSegments[i], curveData.bounds)]

\* The props of <RayTracedMirror> when useRayTracing is set.
MirrorViewport(curveData) ==
    [curveSegments |-> convertCurveDataToSegments(curveData),
     mirrorDist |-> FLit(35, 10),
     mirrorHalfWidth |-> FInt(2),
     mirrorHalfHeight |-> FInt(2),
     imagePlaneDist |-> FInt(1)]

(***************************************************************************)
(* The designers' event handlers (the same code in both designers).  A     *)
(* handler that calls setPoints is followed by the effect on [points]      *)
(* (exportData -> onCurveChange -> setMirrorCurve) and by the re-render of *)
(* MirrorViewport with the new curveData; all of it is one step.           *)
(***************************************************************************)
\* Canvas positions of the mouse events.
Mouse ==
    { <<300, 100>>, <<410, 300>>, <<500, 500>>, <<500, 540>> }

\* Math.sqrt((p.x - x) ** 2 + (p.y - y) ** 2) < r, on whole pixels
within(p, x, y, r) == (p.x - x) * (p.x - x) + (p.y - y) * (p.y - y) < r * r

\* The early returns of handleClick.  AssymMirrorDesigner takes points on the
\* left of the line only.
clickRejected(pts, x, y) ==
    \/ Len(pts) >= MAX_POINTS
    \/ designer = "AssymMirrorDesigner" /\ x >= LINE_X
    \/ y < LINE_TOP \/ y > LINE_BOTTOM
    \/ x < LINE_X - MAX_LEFT_DISTANCE
    \/ x > LINE_X + MAX_RIGHT_DISTANCE
    \/ Abs(x - LINE_X) < MIN_DISTANCE_FROM_VERTICAL
    \/ y < MAX_Y_POSITION
    \/ \E k \in 1..Len(pts) : Abs(pts[k].y - y) < MIN_VERTICAL_SPACING
    \/ \E k \in 1..Len(pts) : within(pts[k], x, y, 20)

\* Where p goes in a list sorted by y: after every element with y <= p.y.
insertByY(sorted, p) ==
    SubSeq(sorted, 1, Cardinality({k \in 1..Len(sorted) : sorted[k].y <= p.y}))
    \o <<p>>
    \o SubSeq(sorted, Cardinality({k \in 1..Len(sorted) : sorted[k].y <= p.y}) + 1,
              Len(sorted))

sortByY_asGiven(pts) == pts

\* .sort((a, b) => a.y - b.y), a stable sort
RECURSIVE sortByY(_)
sortByY(pts) ==
    IF pts = <<>> THEN <<>>
    ELSE insertByY(sortByY(SubSeq(pts, 1, Len(pts) - 1)), pts[Len(pts)])

\* points.find(p => distance < 12): index of the first such point, 0 if none
findPoint(pts, x, y) ==
    IF \E k \in 1..Len(pts) : within(pts[k], x, y, 12)
    THEN CHOOSE k \in 1..Len(pts) :
            /\ within(pts[k], x, y, 12)
            /\ \A j \in 1..(k - 1) : ~within(pts[j], x, y, 12)
    ELSE 0

\* Clamp to the canvas bounds, then push out of the strip along the line.
clampX(x) ==
    IF Abs(Max(LINE_X - MAX_LEFT_DISTANCE, Min(LINE_X + MAX_RIGHT_DISTANCE, x)) - LINE_X)
         < MIN_DISTANCE_FROM_VERTICAL
    THEN IF Max(LINE_X - MAX_LEFT_DISTANCE, Min(LINE_X + MAX_RIGHT_DISTANCE, x)) < LINE_X
         THEN LINE_X - MIN_DISTANCE_FROM_VERTICAL
         ELSE LINE_X + MIN_DISTANCE_FROM_VERTICAL
    ELSE Max(LINE_X - MAX_LEFT_DISTANCE, Min(LINE_X + MAX_RIGHT_DISTANCE, x))

clampY(y) ==
    IF Max(LINE_TOP, Min(LINE_BOTTOM, y)) < MAX_Y_POSITION THEN MAX_Y_POSITION
    ELSE Max(LINE_TOP, Min(LINE_BOTTOM, y))

\* points.map(p => p.id === draggingPointId ? { ...p, x, y } : p)
movePoint(pts, id, x, y) ==
    [k \in 1..Len(pts) |->
        IF pts[k].id = id THEN [x |-> x, y |-> y, id |-> id] ELSE pts[k]]

validSpacing_unchecked(sorted) == TRUE

validSpacing(sorted) ==
    \A k \in 1..(Len(sorted) - 1) :
        ~(Abs(sorted[k].y - sorted[k + 1].y) < MIN_VERTICAL_SPACING)

\* Math.max(0, Math.min(LINE_X - 1, x)), then kept between the maximum left
\* distance and the strip along the line.
clampLeft(x) ==
    IF LINE_X - Max(0, Min(LINE_X - 1, x)) > MAX_LEFT_DISTANCE
    THEN LINE_X - MAX_LEFT_DISTANCE
    ELSE IF LINE_X - Max(0, Min(LINE_X - 1, x)) < MIN_DISTANCE_FROM_VERTICAL
         THEN LINE_X - MIN_DISTANCE_FROM_VERTICAL
         ELSE Max(0, Min(LINE_X - 1, x))

\* The designers whose points carry an id, and the two that are rendered
\* through MirrorViewport.
IdDesigners == {"Asymmetric", "Hybrid", "AssymMirrorDesigner"}
BezierDesigners == {"Asymmetric", "Hybrid"}

\* exportData() in the effect: onCurveChange, if the parent passed one, is
\* App's setMirrorCurve, and MirrorViewport re-renders with the new curveData.
publish(pts) ==
    IF onCurveChange
    THEN /\ mirrorCurve' = exportData(designer, pts)
         /\ viewport' = IF designer \in BezierDesigners
                        THEN MirrorViewport(mirrorCurve') ELSE viewport
    ELSE UNCHANGED <<mirrorCurve, viewport>>

setPoints(pts) ==
    /\ designerPoints' = pts
    /\ publish(pts)

\* The effect's first run, after the first render.
useEffect_mount ==
    /\ ~mounted
    /\ designer \in IdDesigners
    /\ mounted' = TRUE
    /\ publish(designerPoints)
    /\ UNCHANGED <<designer, designerPoints, draggingPointId, nextId, editorVars>>
    /\ UNCHANGED <<renderVars, splineVars, cameraVars>>

\* handleClick with the mouse at m; idCap bounds nextIdRef.current.
handleClickAt(m, idCap) ==
    /\ IF clickRejected(designerPoints, m[1], m[2])
       THEN UNCHANGED <<designerPoints, nextId, mirrorCurve, viewport>>
       ELSE /\ nextId < idCap
            /\ nextId' = nextId + 1
            /\ setPoints(insertByY(designerPoints,
                                   [x |-> m[1], y |-> m[2], id |-> nextId]))
    /\ UNCHANGED <<designer, draggingPointId, mounted, editorVars>>

handleClick ==
    /\ mounted
    /\ \E m \in Mouse : handleClickAt(m, MaxIds)
    /\ UNCHANGED <<renderVars, splineVars, cameraVars>>

handleMouseDownAt(m) ==
    /\ draggingPointId' =
          IF findPoint(designerPoints, m[1], m[2]) = 0 THEN draggingPointId
          ELSE designerPoints[findPoint(designerPoints, m[1], m[2])].id
    /\ UNCHANGED <<designer, designerPoints, nextId, mounted, mirrorCurve, viewport, editorVars>>

handleMouseDown ==
    /\ mounted
    /\ \E m \in Mouse : handleMouseDownAt(m)
    /\ UNCHANGED <<renderVars, splineVars, cameraVars>>

\* The points after the move, sorted; published only if the spacing is valid.
dragTo_always(sorted) == setPoints(sorted)

dragTo(sorted) ==
    IF validSpacing(sorted) THEN setPoints(sorted)
    ELSE UNCHANGED <<designerPoints, mirrorCurve, viewport>>

handleMouseMoveAt(m) ==
    /\ IF draggingPointId = -1
       THEN UNCHANGED <<designerPoints, mirrorCurve, viewport>>
       ELSE dragTo(sortByY(movePoint(designerPoints, draggingPointId,
                                     IF designer = "AssymMirrorDesigner"
                                     THEN clampLeft(m[1]) ELSE clampX(m[1]),
                                     clampY(m[2]))))
    /\ UNCHANGED <<designer, draggingPointId, nextId, mounted, editorVars>>

handleMouseMove ==
    /\ mounted
    /\ \E m \in Mouse : handleMouseMoveAt(m)
    /\ UNCHANGED <<renderVars, splineVars, cameraVars>>

\* Also the handler of onMouseLeave.
handleMouseUp ==
    /\ mounted
    /\ designer \in IdDesigners
    /\ draggingPointId' = -1
    /\ UNCHANGED <<designer, designerPoints, nextId, mounted, mirrorCurve, viewport, editorVars>>
    /\ UNCHANGED <<renderVars, splineVars, cameraVars>>

\* points.filter(p => p.id !== point.id); ids are unique
removeAt(pts, k) == SubSeq(pts, 1, k - 1) \o SubSeq(pts, k + 1, Len(pts))

handleRightClickAt(m) ==
    /\ IF findPoint(designerPoints, m[1], m[2]) = 0
       THEN UNCHANGED <<designerPoints, mirrorCurve, viewport>>
       ELSE setPoints(removeAt(designerPoints, findPoint(designerPoints, m[1], m[2])))
    /\ UNCHANGED <<designer, draggingPointId, nextId, mounted, editorVars>>

handleRightClick ==
    /\ mounted
    /\ \E m \in Mouse : handleRightClickAt(m)
    /\ UNCHANGED <<renderVars, splineVars, cameraVars>>

\* App's first render: mirrorCurve is null, the designer has no points and
\* its effect has not run yet.
InitDesigner ==
    /\ designer \in {"Asymmetric", "Hybrid"}
    /\ designerPoints = <<>>
    /\ draggingPointId = -1
    /\ nextId = 0
    /\ mounted = FALSE
    /\ mirrorCurve = null
    /\ viewport = MirrorViewport(null)
    /\ onCurveChange = TRUE
    /\ EditorIdle
    /\ RenderIdle
    /\ SplineIdle
    /\ CameraIdle

NextDesigner ==
    \/ useEffect_mount
    \/ handleClick
    \/ handleMouseDown
    \/ handleMouseMove
    \/ handleMouseUp
    \/ handleRightClick

SpecDesigner == InitDesigner /\ [][NextDesigner]_vars

(***************************************************************************)
(* The designers without point ids: MirrorDesigner (src/src and            *)
(* frontend/src), whose points mirror about the middle point, and          *)
(* MirrorCurveDesigner (frontend/src), whose line segments are state of    *)
(* their own, recomputed by an effect.                                     *)
(***************************************************************************)
MirrorDesigners == {"MirrorDesigner", "frontend/MirrorDesigner"}

MIN_DISTANCE_FROM_AXIS == 50

\* What no handler of a MirrorDesigner writes.
mirrorFrame ==
    <<designer, onCurveChange, mounted, draggingPointId, nextId, viewport,
      lineSegments, history, effect>>

\* What no handler of MirrorCurveDesigner writes.
curveFrame ==
    <<designer, onCurveChange, mounted, draggingPointId, nextId, viewport,
      middlePoint, draggingMiddle>>

\* newPoints[i] = p, i being at most one past the end
assignAt(pts, i, p) == IF i <= Len(pts) THEN [pts EXCEPT ![i] = p] ELSE Append(pts, p)

\* exportData() in the effect on [points, middlePoint]
MirrorDesigner_publish(pts, middle) ==
    IF onCurveChange
    THEN mirrorCurve' = IF designer = "MirrorDesigner"
                        THEN exportData_MirrorDesigner(pts, middle)
                        ELSE exportData_frontendMirrorDesigner(pts, middle)
    ELSE UNCHANGED mirrorCurve

MirrorDesigner_clickRejected_upTo3(pts, x, y) ==
    IF designer = "MirrorDesigner"
    THEN \/ Len(pts) >= 3
         \/ x >= LINE_X
         \/ LINE_X - x > MAX_LEFT_DISTANCE
         \/ y < LINE_TOP \/ y > LINE_MIDDLE
         \/ LINE_X - x < MIN_DISTANCE_FROM_VERTICAL
         \/ y < MAX_Y_POSITION
         \/ Abs(y - LINE_MIDDLE) < MIN_DISTANCE_FROM_AXIS
         \/ \E k \in 1..Len(pts) : Abs(pts[k].y - y) < MIN_VERTICAL_SPACING
    ELSE \/ Len(pts) >= 3
         \/ x >= LINE_X \/ y < LINE_TOP \/ y > LINE_MIDDLE
         \/ \E k \in 1..Len(pts) : within(pts[k], x, y, 20)

\* The early returns of handleClick, in src/src and in frontend/src.
MirrorDesigner_clickRejected(pts, x, y) ==
    IF designer = "MirrorDesigner"
    THEN \/ Len(pts) >= 2
         \/ x >= LINE_X
         \/ LINE_X - x > MAX_LEFT_DISTANCE
         \/ y < LINE_TOP \/ y > LINE_MIDDLE
         \/ LINE_X - x < MIN_DISTANCE_FROM_VERTICAL
         \/ y < MAX_Y_POSITION
         \/ Abs(y - LINE_MIDDLE) < MIN_DISTANCE_FROM_AXIS
         \/ \E k \in 1..Len(pts) : Abs(pts[k].y - y) < MIN_VERTICAL_SPACING
    ELSE \/ Len(pts) >= 2
         \/ x >= LINE_X \/ y < LINE_TOP \/ y > LINE_MIDDLE
         \/ \E k \in 1..Len(pts) : within(pts[k], x, y, 20)

MirrorDesigner_handleClick(m) ==
    /\ IF MirrorDesigner_clickRejected(designerPoints, m[1], m[2])
       THEN UNCHANGED <<designerPoints, mirrorCurve>>
       ELSE /\ designerPoints' = sortByY(Append(designerPoints, [x |-> m[1], y |-> m[2]]))
            /\ MirrorDesigner_publish(designerPoints', middlePoint)
    /\ UNCHANGED <<middlePoint, draggingMiddle, draggingPoint, mirrorFrame>>

MirrorDesigner_handleMouseDown(m) ==
    /\ IF within([x |-> middlePoint.x, y |-> LINE_MIDDLE], m[1], m[2], 12)
       THEN draggingMiddle' = TRUE /\ UNCHANGED draggingPoint
       ELSE /\ draggingPoint' = IF findPoint(designerPoints, m[1], m[2]) = 0
                                THEN draggingPoint
                                ELSE findPoint(designerPoints, m[1], m[2])
            /\ UNCHANGED draggingMiddle
    /\ UNCHANGED <<designerPoints, middlePoint, mirrorCurve, mirrorFrame>>

\* The two "Enforce ..." steps on an x already clamped to the canvas.
keepLeft(clampedX) ==
    IF LINE_X - clampedX > MAX_LEFT_DISTANCE THEN LINE_X - MAX_LEFT_DISTANCE
    ELSE IF LINE_X - clampedX < MIN_DISTANCE_FROM_VERTICAL
         THEN LINE_X - MIN_DISTANCE_FROM_VERTICAL
         ELSE clampedX

\* Where the middle point is dragged to.
middleX(x) ==
    IF designer = "MirrorDesigner" THEN keepLeft(Max(0, Min(LINE_X, x)))
    ELSE Max(0, Min(LINE_X, x))

\* Where a point is dragged to: clampedY between the top and the middle,
\* off the axis, not above MAX_Y_POSITION.
MirrorDesigner_clampY(y) ==
    IF designer # "MirrorDesigner" THEN Max(LINE_TOP, Min(LINE_MIDDLE, y))
    ELSE IF Abs(Max(LINE_TOP, Min(LINE_MIDDLE, y)) - LINE_MIDDLE) < MIN_DISTANCE_FROM_AXIS
         THEN Max(MAX_Y_POSITION, LINE_MIDDLE - MIN_DISTANCE_FROM_AXIS)
         ELSE Max(MAX_Y_POSITION, Max(LINE_TOP, Min(LINE_MIDDLE, y)))

MirrorDesigner_clampX(x) ==
    IF designer = "MirrorDesigner" THEN keepLeft(Max(0, Min(LINE_X - 1, x)))
    ELSE Max(0, Min(LINE_X - 1, x))

\* src/src sets the sorted points only if their spacing is valid.
MirrorDesigner_dragTo(sorted) ==
    IF designer = "MirrorDesigner" => validSpacing(sorted)
    THEN /\ designerPoints' = sorted
         /\ MirrorDesigner_publish(sorted, middlePoint)
    ELSE UNCHANGED <<designerPoints, mirrorCurve>>

MirrorDesigner_handleMouseMove(m) ==
    /\ IF draggingMiddle
       THEN /\ middlePoint' = [x |-> middleX(m[1]), y |-> LINE_MIDDLE]
            /\ MirrorDesigner_publish(designerPoints, middlePoint')
            /\ UNCHANGED designerPoints
       ELSE IF draggingPoint # 0
            THEN /\ MirrorDesigner_dragTo(sortByY(assignAt(designerPoints, draggingPoint,
                        [x |-> MirrorDesigner_clampX(m[1]), y |-> MirrorDesigner_clampY(m[2])])))
                 /\ UNCHANGED middlePoint
            ELSE UNCHANGED <<designerPoints, middlePoint, mirrorCurve>>
    /\ UNCHANGED <<draggingMiddle, draggingPoint, mirrorFrame>>

\* The button that opens the context menu is pressed over the canvas, so
\* handleMouseDown has run at the same place: the point under the mouse, if
\* any, is the dragged one unless the button is released already.
pressedAt(m) ==
    findPoint(designerPoints, m[1], m[2]) # 0 =>
        draggingPoint \in {0, findPoint(designerPoints, m[1], m[2])}

MirrorDesigner_handleRightClick(m) ==
    /\ pressedAt(m)
    /\ IF findPoint(designerPoints, m[1], m[2]) = 0
       THEN UNCHANGED <<designerPoints, mirrorCurve>>
       ELSE /\ designerPoints' = removeAt(designerPoints, findPoint(designerPoints, m[1], m[2]))
            /\ MirrorDesigner_publish(designerPoints', middlePoint)
    /\ UNCHANGED <<middlePoint, draggingMiddle, draggingPoint, mirrorFrame>>

\* setPoints in MirrorCurveDesigner: the next render's effects are pending.
MirrorCurveDesigner_setPoints(pts) ==
    /\ designerPoints' = pts
    /\ effect' = "export"

\* The canvas's onClick.  MaxHistory bounds the history.
MirrorCurveDesigner_onClick(m) ==
    /\ IF \/ draggingPoint # 0
          \/ Len(designerPoints) >= MAX_POINTS
          \/ m[1] >= LINE_X
          \/ m[2] < LINE_TOP \/ m[2] > LINE_BOTTOM
          \/ \E k \in 1..Len(designerPoints) : within(designerPoints[k], m[1], m[2], 20)
          \/ Len(designerPoints) + 1 > MAX_POINTS
       THEN UNCHANGED <<designerPoints, history, effect>>
       ELSE /\ Len(history) < MaxHistory
            /\ history' = Append(history, designerPoints)
            /\ MirrorCurveDesigner_setPoints(
                   sortByY(Append(designerPoints, [x |-> m[1], y |-> m[2]])))
    /\ UNCHANGED <<draggingPoint, lineSegments, mirrorCurve, curveFrame>>

MirrorCurveDesigner_handleMouseDown(m) ==
    /\ draggingPoint' = IF findPoint(designerPoints, m[1], m[2]) = 0 THEN draggingPoint
                        ELSE findPoint(designerPoints, m[1], m[2])
    /\ UNCHANGED <<designerPoints, history, effect, lineSegments, mirrorCurve, curveFrame>>

MirrorCurveDesigner_handleMouseMove(m) ==
    /\ IF draggingPoint = 0
       THEN UNCHANGED <<designerPoints, effect>>
       ELSE MirrorCurveDesigner_setPoints(
                sortByY(assignAt(designerPoints, draggingPoint,
                                 [x |-> Max(0, Min(LINE_X - 1, m[1])),
                                  y |-> Max(LINE_TOP, Min(LINE_BOTTOM, m[2]))])))
    /\ UNCHANGED <<draggingPoint, history, lineSegments, mirrorCurve, curveFrame>>

MirrorCurveDesigner_handleRightClick(m) ==
    /\ pressedAt(m)
    /\ IF findPoint(designerPoints, m[1], m[2]) = 0
       THEN UNCHANGED <<designerPoints, history, effect>>
       ELSE /\ Len(history) < MaxHistory
            /\ history' = Append(history, designerPoints)
            /\ MirrorCurveDesigner_setPoints(
                   removeAt(designerPoints, findPoint(designerPoints, m[1], m[2])))
    /\ UNCHANGED <<draggingPoint, lineSegments, mirrorCurve, curveFrame>>

(***************************************************************************)
(* The designers one at a time under mouse events on a grid of canvas      *)
(* positions, with or without the optional onCurveChange prop.  The        *)
(* designers that export fitted Bezier curves are mounted without it here  *)
(* (SpecDesigner is about their exports) and add at most MaxAnchorIds      *)
(* points in a run; AssymMirrorDesigner adds at most MaxIds.  An event is  *)
(* handled when no effect is pending.                                      *)
(***************************************************************************)
Designers == IdDesigners \cup MirrorDesigners \cup {"MirrorCurveDesigner"}

Grid ==
    { <<300, 100>>, <<300, 150>>, <<300, 200>>, <<300, 250>>, <<300, 300>>,
      <<300, 350>>, <<395, 300>> }

\* The effects' first run in a designer without point ids.
useEffect_firstRun ==
    /\ ~mounted
    /\ designer \in Designers \ IdDesigners
    /\ mounted' = TRUE
    /\ IF designer \in MirrorDesigners
       THEN MirrorDesigner_publish(designerPoints, middlePoint) /\ UNCHANGED effect
       ELSE effect' = "export" /\ UNCHANGED mirrorCurve
    /\ UNCHANGED <<designer, designerPoints, draggingPointId, nextId, viewport>>
    /\ UNCHANGED <<onCurveChange, middlePoint, draggingMiddle, draggingPoint, lineSegments, history>>
    /\ UNCHANGED <<renderVars, splineVars, cameraVars>>

onClick ==
    /\ mounted /\ effect = "idle"
    /\ \E m \in Grid :
          IF designer \in IdDesigners
          THEN handleClickAt(m, IF designer \in BezierDesigners
                                THEN MaxAnchorIds ELSE MaxIds)
          ELSE IF designer \in MirrorDesigners THEN MirrorDesigner_handleClick(m)
          ELSE MirrorCurveDesigner_onClick(m)
    /\ UNCHANGED <<renderVars, splineVars, cameraVars>>

onMouseDown ==
    /\ mounted /\ effect = "idle"
    /\ \E m \in Grid :
          IF designer \in IdDesigners THEN handleMouseDownAt(m)
          ELSE IF designer \in MirrorDesigners THEN MirrorDesigner_handleMouseDown(m)
          ELSE MirrorCurveDesigner_handleMouseDown(m)
    /\ UNCHANGED <<renderVars, splineVars, cameraVars>>

onMouseMove ==
    /\ mounted /\ effect = "idle"
    /\ \E m \in Grid :
          IF designer \in IdDesigners THEN handleMouseMoveAt(m)
          ELSE IF designer \in MirrorDesigners THEN MirrorDesigner_handleMouseMove(m)
          ELSE MirrorCurveDesigner_handleMouseMove(m)
    /\ UNCHANGED <<renderVars, splineVars, cameraVars>>

\* onMouseUp and onMouseLeave in the designers without point ids.
\* MirrorCurveDesigner records the points in its history after a drag.
onMouseUp ==
    /\ mounted /\ effect = "idle"
    /\ designer \in Designers \ IdDesigners
    /\ draggingPoint' = 0
    /\ IF designer \in MirrorDesigners
       THEN draggingMiddle' = FALSE /\ UNCHANGED history
       ELSE /\ UNCHANGED draggingMiddle
            /\ IF draggingPoint # 0
               THEN /\ Len(history) < MaxHistory
                    /\ history' = Append(history, designerPoints)
               ELSE UNCHANGED history
    /\ UNCHANGED <<designer, designerPoints, draggingPointId, nextId, mounted, mirrorCurve, viewport>>
    /\ UNCHANGED <<onCurveChange, middlePoint, lineSegments, effect>>
    /\ UNCHANGED <<renderVars, splineVars, cameraVars>>

onContextMenu ==
    /\ mounted /\ effect = "idle"
    /\ \E m \in Grid :
          IF designer \in IdDesigners THEN handleRightClickAt(m)
          ELSE IF designer \in MirrorDesigners THEN MirrorDesigner_handleRightClick(m)
          ELSE MirrorCurveDesigner_handleRightClick(m)
    /\ UNCHANGED <<renderVars, splineVars, cameraVars>>

\* The Clear button of AssymMirrorDesigner and of frontend/src's
\* MirrorDesigner: setPoints([]).  The pointer has left the canvas, and
\* onMouseLeave has ended any drag.
Clear ==
    /\ mounted /\ effect = "idle"
    /\ designer \in {"AssymMirrorDesigner", "frontend/MirrorDesigner"}
    /\ draggingPointId = -1 /\ draggingPoint = 0 /\ ~draggingMiddle
    /\ designerPoints' = <<>>
    /\ IF designer \in IdDesigners
       THEN publish(<<>>)
       ELSE MirrorDesigner_publish(<<>>, middlePoint) /\ UNCHANGED viewport
    /\ UNCHANGED <<designer, draggingPointId, nextId, mounted, editorVars>>
    /\ UNCHANGED <<renderVars, splineVars, cameraVars>>

\* MirrorCurveDesigner's Clear button, disabled without points.
clearPoints ==
    /\ mounted /\ effect = "idle"
    /\ designer = "MirrorCurveDesigner"
    /\ draggingPoint = 0
    /\ Len(designerPoints) > 0
    /\ Len(history) < MaxHistory
    /\ history' = Append(history, designerPoints)
    /\ MirrorCurveDesigner_setPoints(<<>>)
    /\ lineSegments' = <<>>
    /\ UNCHANGED <<draggingPoint, mirrorCurve, curveFrame>>
    /\ UNCHANGED <<renderVars, splineVars, cameraVars>>

\* MirrorCurveDesigner's Undo button, disabled while the history is empty.
undo ==
    /\ mounted /\ effect = "idle"
    /\ designer = "MirrorCurveDesigner"
    /\ draggingPoint = 0
    /\ history # <<>>
    /\ history' = SubSeq(history, 1, Len(history) - 1)
    /\ MirrorCurveDesigner_setPoints(history[Len(history)])
    /\ UNCHANGED <<draggingPoint, lineSegments, mirrorCurve, curveFrame>>
    /\ UNCHANGED <<renderVars, splineVars, cameraVars>>

\* MirrorCurveDesigner's first effect, on [lineSegments, points,
\* onCurveChange]: it runs after a render that changed the points, and again
\* after the render that setLineSegments causes.
exportEffect ==
    /\ effect \in {"export", "export again"}
    /\ effect' = IF effect = "export" THEN "approximate" ELSE "idle"
    /\ IF Len(designerPoints) >= 1 /\ Len(lineSegments) > 0
       THEN mirrorCurve' =
                IF onCurveChange
                THEN [points |-> designerPoints, lineSegments |-> lineSegments,
                      bounds |-> [x |-> LINE_X, yTop |-> LINE_TOP, yBottom |-> LINE_BOTTOM]]
                ELSE mirrorCurve
       ELSE IF Len(designerPoints) = 0
            THEN mirrorCurve' = IF onCurveChange THEN null ELSE mirrorCurve
            ELSE UNCHANGED mirrorCurve
    /\ UNCHANGED <<designerPoints, draggingPoint, lineSegments, history, curveFrame>>
    /\ UNCHANGED <<renderVars, splineVars, cameraVars>>

\* MirrorCurveDesigner's second effect, on [points].
approximateEffect ==
    /\ effect = "approximate"
    /\ effect' = "export again"
    /\ lineSegments' = IF Len(designerPoints) >= 1 THEN approximateWithLines(designerPoints)
                       ELSE <<>>
    /\ UNCHANGED <<designerPoints, draggingPoint, history, mirrorCurve, curveFrame>>
    /\ UNCHANGED <<renderVars, splineVars, cameraVars>>

\* A designer's first render.
InitAnchors ==
    /\ designer \in Designers
    /\ onCurveChange \in BOOLEAN
    /\ onCurveChange => designer \notin BezierDesigners \cup {"MirrorDesigner"}
    /\ designerPoints = <<>>
    /\ draggingPointId = -1
    /\ nextId = 0
    /\ mounted = FALSE
    /\ mirrorCurve = null
    /\ viewport = null
    /\ EditorIdle
    /\ RenderIdle
    /\ SplineIdle
    /\ CameraIdle

NextAnchors ==
    \/ useEffect_mount
    \/ useEffect_firstRun
    \/ onClick
    \/ onMouseDown
    \/ onMouseMove
    \/ onMouseUp
    \/ handleMouseUp
    \/ onContextMenu
    \/ Clear
    \/ clearPoints
    \/ undo
    \/ exportEffect
    \/ approximateEffect

SpecAnchors == InitAnchors /\ [][NextAnchors]_vars

(***************************************************************************)
(* Properties of the designers and the viewport                            *)
(***************************************************************************)
\* The segment list MirrorViewport hands to RayTracedMirror.
curveSegments == viewport.curveSegments

\* C4: whatever the designer's points are after any sequence of add, drag
\* and delete, consecutive segments of the viewport's list share their
\* domain boundary: segments[i].yMax = segments[i+1].yMin for all i.
C4_NoGapsOrOverlaps ==
    \A i \in 1..(Len(curveSegments) - 1) :
        curveSegments[i].yMax = curveSegments[i + 1].yMin

\* C5: for every curveData, null included, the first segment starts at
\* -mirrorHalfHeight and the last one ends at +mirrorHalfHeight, the
\* mirrorHalfHeight being the one passed in the same render.
C5_EndsAtHalfHeight ==
    /\ curveSegments[1].yMin = FNeg(viewport.mirrorHalfHeight)
    /\ curveSegments[Len(curveSegments)].yMax = viewport.mirrorHalfHeight

\* The exact value of a float, as a rational.
FExact(f) ==
    IF f[2] >= 0 THEN RInt(f[1] * 2^f[2]) ELSE RNorm(f[1], 2^(0 - f[2]))

\* One coordinate of an arc at t = 0.5: (start + 2 cp + end) / 4, exactly.
arcMiddle(s, c, e) ==
    RDiv(RAdd(RAdd(FExact(s), RMul(RInt(2), FExact(c))), FExact(e)), RInt(4))

\* Point p (whole pixels) is an end of the arc or its t = 0.5 point.
passesThrough(arc, p) ==
    \/ arc.start = CanvasPoint(<<p.x, p.y>>)
    \/ arc.end = CanvasPoint(<<p.x, p.y>>)
    \/ /\ arcMiddle(arc.start.x, arc.cp.x, arc.end.x) = RInt(p.x)
       /\ arcMiddle(arc.start.y, arc.cp.y, arc.end.y) = RInt(p.y)

chainThrough(chain, pts) ==
    /\ chain # <<>>
    /\ chain[1].start = Top
    /\ chain[Len(chain)].end = Bottom
    /\ \A k \in 1..Len(pts) : \E i \in 1..Len(chain) : passesThrough(chain[i], pts[k])

\* C10: with any number of points (0 to the maximum), the chain of quadratic
\* Beziers the designer exported starts at the top of the line, ends at its
\* bottom and passes through every point, each being a junction of the
\* chain or the t = 0.5 point of an arc.
C10_ChainThroughAnchors ==
    mounted => chainThrough(mirrorCurve.quadraticBeziers, designerPoints)

\* The chain of quadratic Beziers last published.
exported == mirrorCurve.quadraticBeziers

\* 2 * anchor - 0.5 * (start + end) for one coordinate, exactly.
mirroredMidpoint(anchor, start, end) ==
    RSub(RMul(RInt(2), RInt(anchor)), RMul(R(1, 2), RAdd(RInt(start), RInt(end))))

reflectedAcross(anchor, cp) == RSub(RMul(RInt(2), RInt(anchor)), FExact(cp))

\* Point k > 1 of the Asymmetric designer ends arc 2k - 2 and starts arc
\* 2k - 1 of the exported chain.
mirroredAt(k) ==
    /\ FExact(exported[2 * k - 1].cp.x)
         = reflectedAcross(designerPoints[k].x, exported[2 * k - 2].cp.x)
    /\ FExact(exported[2 * k - 1].cp.y)
         = reflectedAcross(designerPoints[k].y, exported[2 * k - 2].cp.y)

\* C12: pointsToQuadraticBeziers with two or more points: at every point
\* that joins two arcs, the control point of the arc starting there is the
\* mirror image of the control point of the arc ending there,
\* cp_after = 2 * anchor - cp_before.
C12_ControlPointsMirrored ==
    (mounted /\ designer = "Asymmetric" /\ Len(designerPoints) >= 2) =>
        \A k \in 2..Len(designerPoints) : mirroredAt(k)


\* A coordinate of exported geometry as a rational: the Bezier designers
\* export reduced-precision floats, the others exact samples.
exactCoord(v) == IF designer \in BezierDesigners THEN FExact(v) ELSE v

\* The line segments of curveData c run down x = LINE_X.
segmentsOnTheLine(c) ==
    /\ \A k \in 1..Len(c.lineSegments) :
          /\ exactCoord(c.lineSegments[k].x1) = RInt(LINE_X)
          /\ exactCoord(c.lineSegments[k].x2) = RInt(LINE_X)
    /\ c.lineSegments # <<>> =>
          /\ exactCoord(c.lineSegments[1].y1) = RInt(LINE_TOP)
          /\ exactCoord(c.lineSegments[Len(c.lineSegments)].y2) = RInt(LINE_BOTTOM)

\* The Bezier curves of curveData c, if it has any, lie on x = LINE_X.
beziersOnTheLine(c) ==
    "quadraticBeziers" \in DOMAIN c =>
        \A k \in 1..Len(c.quadraticBeziers) :
            /\ FExact(c.quadraticBeziers[k].start.x) = RInt(LINE_X)
            /\ FExact(c.quadraticBeziers[k].cp.x) = RInt(LINE_X)
            /\ FExact(c.quadraticBeziers[k].end.x) = RInt(LINE_X)

\* The coefficients bezierToPolynomial gives a segment of the viewport.
profileOf(seg) ==
    bezierToPolynomial(FExact(seg.yMin), FExact(seg.yMax),
                       FExact(seg.z0), FExact(seg.z1), FExact(seg.z2))

\* Every segment is z(y) = 0, and the list spans the mirror's height.
flatOverHeight(segments) ==
    /\ \A k \in 1..Len(segments) :
          /\ profileOf(segments[k]).a = RZero
          /\ profileOf(segments[k]).b = RZero
          /\ profileOf(segments[k]).c = RZero
    /\ segments[1].yMin = FNeg(physicalHalfHeight)
    /\ segments[Len(segments)].yMax = physicalHalfHeight

\* C13: a designer that has no points has exported, once its effects have
\* run, a curveData whose line segments (and Bezier curves, if it exports
\* any) lie on x = LINE_X from LINE_TOP to LINE_BOTTOM, and every segment the
\* viewport derives from it has a = 0, b = 0 and c = 0, the list spanning the
\* mirror's height.
C13_StraightWithoutPoints ==
    (mounted /\ onCurveChange /\ effect = "idle" /\ designerPoints = <<>>) =>
        /\ mirrorCurve # null
        /\ segmentsOnTheLine(mirrorCurve)
        /\ beziersOnTheLine(mirrorCurve)
        /\ mirrorCurve.lineSegments # <<>>
        /\ viewport # null => flatOverHeight(viewport.curveSegments)


\* C14: in every designer, whatever clicks, drags, right-clicks, Clear and
\* Undo have happened, the points are in order of non-decreasing y.
C14_SortedByY ==
    \A k \in 1..(Len(designerPoints) - 1) : designerPoints[k].y <= designerPoints[k + 1].y

\* A point added later stands before an earlier one, a drag being under way.
C14_Witness ==
    /\ designer = "Hybrid" /\ Len(designerPoints) = 3 /\ draggingPointId # -1
    /\ designerPoints[1].id > designerPoints[2].id
    /\ designerPoints[2].id > designerPoints[3].id

\* C15: in MirrorDesigner (src/src), AsymmetricMirrorBezier and
\* HybridMirrorBezier, whatever clicks, drags and right-clicks have happened,
\* any two points are at least MIN_VERTICAL_SPACING apart in y.
C15_VerticalSpacing ==
    designer \in BezierDesigners \cup {"MirrorDesigner"} =>
        \A j, k \in 1..Len(designerPoints) :
            j # k => Abs(designerPoints[j].y - designerPoints[k].y) >= MIN_VERTICAL_SPACING

\* Two points of MirrorDesigner exactly 50 apart, the first being dragged.
C15_Witness ==
    /\ designer = "MirrorDesigner" /\ Len(designerPoints) = 2 /\ draggingPoint = 1
    /\ designerPoints[2].y - designerPoints[1].y = MIN_VERTICAL_SPACING

derivedFrom(c) ==
    IF designer = "MirrorCurveDesigner"
    THEN [points |-> c.points, lineSegments |-> approximateWithLines(c.points),
          bounds |-> c.bounds]
    ELSE IF designer = "frontend/MirrorDesigner"
    THEN exportData_frontendMirrorDesigner(c.points, c.middlePoint)
    ELSE exportData(designer, c.points)

\* C17: a curveData handed to onCurveChange carries the line segments (and
\* Bezier curves) derived from the points it carries.
C17_ConsistentCurveData == mirrorCurve # null => mirrorCurve = derivedFrom(mirrorCurve)

(***************************************************************************)
(* Properties of the fragment shaders (checked under SpecFragment)         *)
(***************************************************************************)
ExtrudedRay == fragPc \in {"loop", "hit", "miss", "shaded"}
RevolutionRay == fragPc \in {"intersected", "done"}

\* -1, or a number above 0.001.
sentinelOrBeyond(t) == t = MinusOne \/ (t # Infinity /\ RLt(TMin001, t))

\* C18: every solver layer returns either the sentinel -1 or a t > 0.001
\* (intersectSegment in both builds of the extruded-profile shader,
\* solveQuadraticFastPath and solveQuartic in the surface-of-revolution
\* shader), and no call divides by zero.
C18_SentinelOrRootWithoutDivisionByZero ==
    /\ ExtrudedRay =>
          \A k \in 1..uniforms.u_numSegments :
              sentinelOrBeyond(shaderT(k)) /\ sentinelOrBeyond(debugShaderT(k))
    /\ RevolutionRay => ~frag.dividedByZero /\ sentinelOrBeyond(frag.t)

\* The shader's own notion of a hit: a segment was found (extruded profile);
\* t is a number, not negative, and the hit lies within the mirror's radius
\* (surface of revolution).
mirrorWasHit ==
    \/ fragPc = "shaded"
    \/ /\ fragPc = "done"
       /\ frag.t # Infinity
       /\ ~RLt(frag.t, RZero)
       /\ ~outsideRadius(hitAt(Origin, frag.rd, frag.t))

insideImage(uv) ==
    /\ uv # <<NaN, NaN>>
    /\ RLe(RZero, uv[1]) /\ RLe(uv[1], RInt(1))
    /\ RLe(RZero, uv[2]) /\ RLe(uv[2], RInt(1))

\* C19: in both shaders a fragment whose reflected direction at a hit has
\* z >= 0 gets the colour (0.03, 0.03, 0.05), and texture2D is called only
\* when the mirror was hit, the reflected z is negative and the UV lies in
\* [0,1] x [0,1].
C19_BehindMirrorNeverSampled ==
    fragPc \in {"shaded", "done"} =>
        /\ frag.shaded.texture2D =>
              /\ mirrorWasHit
              /\ frag.shaded.reflDir[3] # NaN
              /\ RLt(frag.shaded.reflDir[3], RZero)
              /\ insideImage(frag.shaded.imgUV)
        /\ (mirrorWasHit /\ frag.shaded.reflDir[3] # NaN
                 /\ RLe(RZero, frag.shaded.reflDir[3])) =>
              frag.shaded.gl_FragColor = BehindMirror

\* A ray along +Z towards a flat mirror at distance 2.0 with the image plane
\* at distance 0.5, after main has returned.
deadCentre ==
    /\ fragPc \in {"miss", "shaded", "done"}
    /\ frag.rd = <<RZero, RZero, RInt(1)>>
    /\ uniforms.u_imagePlaneDist = R(1, 2)
    /\ IF fragPc = "done"
       THEN /\ uniforms.u_profileCoeffs[1] = RZero /\ uniforms.u_profileCoeffs[2] = RZero
            /\ RAdd(uniforms.u_profileCoeffs[3], uniforms.u_mirrorDist) = RInt(2)
       ELSE \A k \in 1..uniforms.u_numSegments :
                /\ k \in FlatSegments
                /\ RAdd(uniforms.u_segments[k].c, uniforms.u_mirrorDist) = RInt(2)

\* C20: for a ray from the origin along +Z, a flat mirror at distance 2.0
\* and the image plane at distance 0.5, main computes the UV (0.5, 0.5) and
\* samples the texture there.
C20_DeadCentreReflection ==
    deadCentre =>
        /\ fragPc # "miss"
        /\ frag.shaded.texture2D
        /\ frag.shaded.imgUV = <<R(1, 2), R(1, 2)>>

(***************************************************************************)
(* Properties of the segment upload (checked under SpecUpload)             *)
(***************************************************************************)
\* The polynomial segments the mounted component computes from its props.
segmentsOf(p) ==
    IF p.component = "SimpleWebcam"
    THEN createSegmentsFromControlPoints_SimpleWebcam(
             p.curveSegments[1].z0, p.curveSegments[1].z1,
             p.curveSegments[1].z2, p.mirrorHalfHeight)
    ELSE createSegmentsFromControlPoints(p.curveSegments)

InLoopBody ==
    fragPc = "loop" /\ frag.i < MAX_SEGMENTS /\ frag.i < uniforms.u_numSegments

\* C21: in each ray-traced component, after render the uniform u_numSegments
\* is min(length of the segment list, 16), u_segments holds the first
\* segments in order, and every iteration of the shader's segment loop reads
\* u_segments at indices within 0..15 only.
C21_UploadCapped ==
    fragPc # "mounted" =>
        /\ uniforms.u_numSegments = Min(Len(segmentsOf(props)), MAX_SEGMENTS)
        /\ uniforms.u_segments = SubSeq(segmentsOf(props), 1, uniforms.u_numSegments)
        /\ InLoopBody => indicesRead(frag.i) \subseteq 0..(MAX_SEGMENTS - 1)

(***************************************************************************)
(* Properties of solveQuartic (checked under SpecQuartic)                  *)
(***************************************************************************)
admissibleRoots(rs) == { rs[k] : k \in { j \in 1..Len(rs) : RLt(TMin001, RInt(rs[j])) } }

\* The smallest real root above 0.001, or -1 when there is none.
smallestAdmissibleRoot(rs) ==
    IF admissibleRoots(rs) = {} THEN MinusOne
    ELSE RInt(CHOOSE r \in admissibleRoots(rs) : \A o \in admissibleRoots(rs) : r <= o)

\* C22: solveQuartic returns the smallest real root above 0.001 of
\* c4 t^4 + c3 t^3 + c2 t^2 + c1 t + c0, and -1 only when there is no such
\* root, also when c4 (and c3, c2) are zero.
C22_SmallestPositiveRoot ==
    fragPc = "returned" => frag.t = smallestAdmissibleRoot(frag.roots)

\* Segment k of the props has yMax = yMin.
degenerate(k) == props.curveSegments[k].yMax = props.curveSegments[k].yMin

flat(z0, yMin) == [a |-> RZero, b |-> RZero, c |-> z0, yMin |-> yMin]

\* C23: for a segment with yMax = yMin, bezierToPolynomial returns a = 0,
\* b = 0, c = z0 and divides by nothing; the copy of the algebra in
\* SimpleWebcam does the same for a mirror of height zero.
C23_DegenerateIsFlat ==
    fragPc # "mounted" =>
        /\ props.component # "SimpleWebcam" =>
              \A k \in 1..Len(uniforms.u_segments) :
                  degenerate(k) =>
                      /\ uniforms.u_segments[k]
                            = flat(props.curveSegments[k].z0, props.curveSegments[k].yMin)
                      /\ bezierDivisors(props.curveSegments[k].yMin,
                                        props.curveSegments[k].yMax) = {}
        /\ props.component = "SimpleWebcam" =>
              createSegmentsFromControlPoints_SimpleWebcam(
                  props.curveSegments[1].z0, props.curveSegments[1].z1,
                  props.curveSegments[1].z2, RZero)
              = <<flat(props.curveSegments[1].z0, RZero)>>

C23_Witness ==
    /\ fragPc = "hit"
    /\ \E k \in 1..Len(uniforms.u_segments) :
          /\ degenerate(k)
          /\ props.curveSegments[k].z1 # props.curveSegments[k].z0
          /\ uniforms.u_segments[k].a = RZero
          /\ uniforms.u_segments[k].c = props.curveSegments[k].z0

(***************************************************************************)
(* Determinism of the curve pipeline (checked under SpecDesigner)          *)
(***************************************************************************)
\* The anchor list alone: the coordinates in order, as a designer that was
\* handed these anchors afresh would hold them.
anchorsOnly(pts) == [k \in 1..Len(pts) |-> [x |-> pts[k].x, y |-> pts[k].y, id |-> 0]]

\* anchors -> quadratic Beziers -> {yMin, yMax, z0, z1, z2}
curvePipeline(kind, pts) == convertCurveDataToSegments(exportData(kind, pts))

grabbed(pts, id, index) ==
    IF designer \in IdDesigners
    THEN IF \E k \in 1..Len(pts) : pts[k].id = id
         THEN CHOOSE k \in 1..Len(pts) : pts[k].id = id
         ELSE 0
    ELSE IF index <= Len(pts) THEN index ELSE 0

\* C25: a mouse-move of a drag that changes the anchors leaves every anchor
\* but the held one as it was, and the drag holds the moved anchor
\* afterwards (so that the next mouse-move of the gesture moves it again),
\* also when the move changes the anchors' order.
C25_DragMovesGrabbedOnly ==
    [][(/\ onMouseMove
        /\ designerPoints' # designerPoints
        /\ grabbed(designerPoints, draggingPointId, draggingPoint) # 0)
       => /\ grabbed(designerPoints', draggingPointId', draggingPoint') # 0
          /\ removeAt(designerPoints, grabbed(designerPoints, draggingPointId, draggingPoint))
             = removeAt(designerPoints',
                        grabbed(designerPoints', draggingPointId', draggingPoint'))]_vars

(***************************************************************************)
(* The physical profile of a single anchor (checked under SpecDesigner)    *)
(***************************************************************************)
\* z(y) of the viewport's segment k: bezierToPolynomial on its five numbers.
profile(k) ==
    bezierToPolynomial(FExact(viewport.curveSegments[k].yMin),
                       FExact(viewport.curveSegments[k].yMax),
                       FExact(viewport.curveSegments[k].z0),
                       FExact(viewport.curveSegments[k].z1),
                       FExact(viewport.curveSegments[k].z2))

\* The anchor's physical y and depth, by the formulas of
\* convertBezierCurvesToSegments, exactly.
anchorY(p) ==
    RSub(RMul(R(p.y - LINE_TOP, LINE_BOTTOM - LINE_TOP), RInt(4)), RInt(2))

anchorDepth(p) == RNeg(R(LINE_X - p.x, LINE_X))

\* C26: with exactly one anchor in AsymmetricMirrorBezier, the polynomial
\* z(y) of the single segment, evaluated at the anchor's physical y, is the
\* anchor's physical depth -((bounds.x - anchor.x) / bounds.x), within 0.01.
C26_ProfileThroughAnchor ==
    (mounted /\ designer = "Asymmetric" /\ Len(designerPoints) = 1) =>
        /\ Len(viewport.curveSegments) = 1
        /\ RLe(RAbs(RSub(polyAt(profile(1), anchorY(designerPoints[1])),
                         anchorDepth(designerPoints[1]))),
               R(1, 100))

(***************************************************************************)
(* Rejected clicks and drags (checked under SpecAnchors)                   *)
(***************************************************************************)
SpacedDesigners == {"Asymmetric", "Hybrid", "MirrorDesigner"}

\* A click at (x, y) that breaks a placement rule: the list is full, the
\* point is within MIN_VERTICAL_SPACING of an anchor's height, above
\* MAX_Y_POSITION, inside the strip along the line, or too far left.
violatesPlacement(pts, x, y) ==
    IF Len(pts) >= (IF designer \in BezierDesigners THEN MAX_POINTS ELSE 2) THEN TRUE
    ELSE IF \E k \in 1..Len(pts) : Abs(pts[k].y - y) < MIN_VERTICAL_SPACING THEN TRUE
    ELSE IF y < MAX_Y_POSITION THEN TRUE
    ELSE IF Abs(x - LINE_X) < MIN_DISTANCE_FROM_VERTICAL THEN TRUE
    ELSE LINE_X - x > MAX_LEFT_DISTANCE

\* Two anchors of the list are less than 50 px apart vertically.
tooClose(pts) ==
    \E j \in 1..Len(pts) : \E k \in (j + 1)..Len(pts) : Abs(pts[j].y - pts[k].y) < 50

\* A drag of an anchor is under way.
dragUnderWay ==
    IF designer \in IdDesigners
    THEN grabbed(designerPoints, draggingPointId, draggingPoint) # 0
    ELSE ~draggingMiddle /\ grabbed(designerPoints, draggingPointId, draggingPoint) # 0

\* The anchors with the held one at the clamped mouse position, before the sort.
draggedTo(m) ==
    IF designer \in IdDesigners
    THEN movePoint(designerPoints, draggingPointId, clampX(m[1]), clampY(m[2]))
    ELSE assignAt(designerPoints, draggingPoint,
                  [x |-> MirrorDesigner_clampX(m[1]), y |-> MirrorDesigner_clampY(m[2])])

clickAt(m) ==
    IF designer \in IdDesigners THEN handleClickAt(m, MaxAnchorIds)
    ELSE MirrorDesigner_handleClick(m)

moveAt(m) ==
    IF designer \in IdDesigners THEN handleMouseMoveAt(m)
    ELSE MirrorDesigner_handleMouseMove(m)

\* C27: in AsymmetricMirrorBezier, HybridMirrorBezier and MirrorDesigner a
\* click that breaks a placement rule leaves the anchor list as it was, and
\* so does a mouse-move of a drag that would bring two anchors within 50 px
\* vertically: a step that changes a coordinate or the order of the list is
\* neither of the two.
C27_RejectedLeavesAnchors ==
    [][(designer \in SpacedDesigners /\ designerPoints' # designerPoints) =>
         \A m \in Grid :
            /\ violatesPlacement(designerPoints, m[1], m[2]) => ~clickAt(m)
            /\ (dragUnderWay /\ tooClose(draggedTo(m))) => ~moveAt(m)]_vars

\* A drag is under way with an anchor above and one at most 50 px below a
\* mouse position of the grid: the move to it is rejected.
C27_Witness ==
    /\ designer \in SpacedDesigners
    /\ mounted /\ effect = "idle"
    /\ dragUnderWay
    /\ Len(designerPoints) >= 2
    /\ \E m \in Grid : tooClose(draggedTo(m)) /\ draggedTo(m) # designerPoints

(***************************************************************************)
(* The camera components and the render loops.                             *)
(* FunhouseMirrorWebcam (src/src/splineToQuadraticBezier.js 246-506),      *)
(* WebcamMirror and SimpleWebcam own the camera; ClassicMirrorViewport and *)
(* RayTracedMirror only run a loop.  JavaScript runs one handler, promise  *)
(* continuation, effect flush or animation-frame callback at a time, so    *)
(* each is one action.                                                     *)
(***************************************************************************)
MaxStreams == 2
MaxFrames == 3
MaxLoops == 3

CameraComponents == {"FunhouseMirrorWebcam", "WebcamMirror", "SimpleWebcam"}
LoopComponents == CameraComponents \cup {"ClassicMirrorViewport", "RayTracedMirror"}

\* The loops that keep the pending id in animationIdRef; the others keep it
\* in a variable of the effect.
RefLoops == {"FunhouseMirrorWebcam", "WebcamMirror", "ClassicMirrorViewport"}

\* The components whose parent takes them off the page: App's Back button,
\* MirrorViewport's useRayTracing.
Unmountable == {"FunhouseMirrorWebcam", "ClassicMirrorViewport", "RayTracedMirror"}

cancelAnimationFrame_ignored(frames, id) == frames

cancelAnimationFrame(frames, id) == {f \in frames : f.id # id}

requestAnimationFrame(frames, id, loop) == frames \cup {[id |-> id, loop |-> loop]}

\* stream.getTracks().forEach(track => track.stop())
stopTracks(tracks, stream) == [tracks EXCEPT ![stream] = "stopped"]

\* The function the effect in force returned, if it returned one:
\* cancel the pending frame.
effectCleanup(s) ==
    IF s.w.loop = 0 THEN s
    ELSE IF s.w.animationId # 0
         THEN [w |-> [s.w EXCEPT !.animationId = 0, !.loop = 0],
               b |-> [s.b EXCEPT !.frames = cancelAnimationFrame(@, s.w.animationId)]]
         ELSE [w |-> [s.w EXCEPT !.loop = 0], b |-> s.b]

\* The loop's effect: without isActive it cancels what animationIdRef holds
\* (SimpleWebcam just returns); otherwise it calls render(), which ends in
\* requestAnimationFrame(render) on each of its paths.
effectBody(s) ==
    IF s.w.component = "RayTracedMirror" \/ s.w.isActive
    THEN [w |-> [s.w EXCEPT !.animationId = s.b.requested + 1, !.loop = s.b.loops + 1],
          b |-> [s.b EXCEPT !.frames = requestAnimationFrame(@, s.b.requested + 1,
                                                            s.b.loops + 1),
                            !.requested = @ + 1, !.loops = @ + 1]]
    ELSE IF s.w.component \in RefLoops /\ s.w.animationId # 0
         THEN [w |-> [s.w EXCEPT !.animationId = 0],
               b |-> [s.b EXCEPT !.frames = cancelAnimationFrame(@, s.w.animationId)]]
         ELSE s

\* The component's first render.
Camera_mount ==
    /\ webcam.component \in LoopComponents
    /\ ~webcam.mounted
    /\ webcam' = [webcam EXCEPT !.mounted = TRUE, !.flushed = FALSE]
    /\ UNCHANGED <<browser, renderVars, splineVars, designerVars>>

\* React runs the effects of the last render: the old effect's cleanup, then
\* the effect.
useEffect_renderLoop ==
    /\ webcam.mounted /\ ~webcam.flushed
    /\ browser.requested < MaxFrames /\ browser.loops < MaxLoops
    /\ webcam' = [effectBody(effectCleanup([w |-> webcam, b |-> browser])).w
                     EXCEPT !.flushed = TRUE]
    /\ browser' = effectBody(effectCleanup([w |-> webcam, b |-> browser])).b
    /\ UNCHANGED <<renderVars, splineVars, designerVars>>

\* A pending animation-frame callback runs: render() of the loop that
\* requested it, which requests the next frame.
render_frame ==
    /\ browser.requested < MaxFrames
    /\ \E f \in browser.frames :
          /\ browser' = [browser EXCEPT
                            !.frames = requestAnimationFrame(browser.frames \ {f},
                                                             browser.requested + 1, f.loop),
                            !.requested = @ + 1]
          /\ webcam' = IF webcam.component \in RefLoops
                       THEN [webcam EXCEPT !.animationId = browser.requested + 1]
                       ELSE IF f.loop = webcam.loop
                            THEN [webcam EXCEPT !.animationId = browser.requested + 1]
                            ELSE webcam
    /\ UNCHANGED <<renderVars, splineVars, designerVars>>

\* Start is clicked (the button is disabled only while isActive): the
\* handler runs up to its await.
startCamera ==
    /\ webcam.component \in CameraComponents
    /\ webcam.mounted /\ ~webcam.isActive
    /\ Len(browser.tracks) + browser.getUserMedia + browser.abandoned < MaxStreams
    /\ browser' = [browser EXCEPT !.getUserMedia = @ + 1]
    /\ UNCHANGED <<webcam, renderVars, splineVars, designerVars>>

\* getUserMedia resolves with a new stream and startCamera goes on.
\* SimpleWebcam sets srcObject and isActive; the other two set srcObject and
\* wait for loadedmetadata.
startCamera_resumed ==
    /\ browser.getUserMedia > 0
    /\ browser' = [browser EXCEPT !.getUserMedia = @ - 1,
                                  !.tracks = Append(@, "live")]
    /\ webcam' = IF webcam.component = "SimpleWebcam"
                 THEN [webcam EXCEPT !.srcObject = Len(browser.tracks) + 1,
                                     !.isActive = TRUE,
                                     !.flushed = IF webcam.isActive THEN @ ELSE FALSE]
                 ELSE [webcam EXCEPT !.srcObject = Len(browser.tracks) + 1,
                                     !.loading = TRUE]
    /\ UNCHANGED <<renderVars, splineVars, designerVars>>

\* getUserMedia resolves for a component that was unmounted meanwhile:
\* videoRef.current is null and the stream is attached to nothing.
startCamera_resumedUnmounted ==
    /\ browser.abandoned > 0
    /\ browser' = [browser EXCEPT !.abandoned = @ - 1, !.tracks = Append(@, "live")]
    /\ UNCHANGED <<webcam, renderVars, splineVars, designerVars>>

\* The video element has loaded the metadata of its srcObject:
\* videoRef.current.play() is called.
onloadedmetadata ==
    /\ webcam.loading
    /\ webcam' = [webcam EXCEPT !.loading = FALSE]
    /\ browser' = [browser EXCEPT !.play = @ + 1]
    /\ UNCHANGED <<renderVars, splineVars, designerVars>>

\* A play() promise settles; fulfilled, its then() calls setIsActive(true).
play_settled ==
    /\ browser.play > 0
    /\ browser' = [browser EXCEPT !.play = @ - 1]
    /\ \E fulfilled \in BOOLEAN :
          webcam' = IF fulfilled /\ ~webcam.isActive
                    THEN [webcam EXCEPT !.isActive = TRUE, !.flushed = FALSE]
                    ELSE webcam
    /\ UNCHANGED <<renderVars, splineVars, designerVars>>

\* Stop is clicked (the button is disabled unless isActive).
stopCamera ==
    /\ webcam.component \in CameraComponents
    /\ webcam.mounted /\ webcam.isActive
    /\ IF webcam.component = "SimpleWebcam"
       THEN /\ webcam.srcObject # 0
            /\ webcam' = [webcam EXCEPT !.srcObject = 0, !.isActive = FALSE,
                                        !.flushed = FALSE]
            /\ browser' = [browser EXCEPT !.tracks = stopTracks(@, webcam.srcObject)]
       ELSE /\ webcam' = [webcam EXCEPT !.srcObject = 0, !.loading = FALSE,
                                        !.animationId = 0, !.loop = 0,
                                        !.isActive = FALSE, !.flushed = FALSE]
            /\ browser' = [browser EXCEPT
                              !.tracks = IF webcam.srcObject # 0
                                         THEN stopTracks(@, webcam.srcObject) ELSE @,
                              !.frames = IF webcam.animationId # 0
                                         THEN cancelAnimationFrame(@, webcam.animationId)
                                         ELSE @]
    /\ UNCHANGED <<renderVars, splineVars, designerVars>>

\* A render with a changed dependency of the loop's effect: rotation in
\* FunhouseMirrorWebcam, a slider in SimpleWebcam, the props of
\* ClassicMirrorViewport (isActive among them) and of RayTracedMirror.
dependencyChange ==
    /\ webcam.mounted
    /\ webcam.component \in LoopComponents \ {"WebcamMirror"}
    /\ \E active \in BOOLEAN :
          webcam' = [webcam EXCEPT
                        !.isActive = IF webcam.component = "ClassicMirrorViewport"
                                     THEN active ELSE @,
                        !.flushed = FALSE]
    /\ UNCHANGED <<browser, renderVars, splineVars, designerVars>>

\* The parent renders without the component: the cleanup of its effect
\* runs, its state and refs are gone, its pending promises stay.
Camera_unmount ==
    /\ webcam.mounted
    /\ webcam.component \in Unmountable
    /\ webcam' = [component |-> webcam.component, mounted |-> FALSE, isActive |-> FALSE,
                  srcObject |-> 0, loading |-> FALSE, animationId |-> 0, loop |-> 0,
                  flushed |-> TRUE]
    /\ browser' = [effectCleanup([w |-> webcam, b |-> browser]).b EXCEPT
                      !.abandoned = @ + browser.getUserMedia,
                      !.getUserMedia = 0, !.play = 0]
    /\ UNCHANGED <<renderVars, splineVars, designerVars>>

\* The page before the component's first render.
InitCamera ==
    /\ webcam \in {[component |-> c, mounted |-> FALSE, isActive |-> FALSE,
                    srcObject |-> 0, loading |-> FALSE, animationId |-> 0, loop |-> 0,
                    flushed |-> TRUE] : c \in LoopComponents}
    /\ browser = [tracks |-> <<>>, getUserMedia |-> 0, abandoned |-> 0, play |-> 0,
                  frames |-> {}, requested |-> 0, loops |-> 0]
    /\ RenderIdle
    /\ SplineIdle
    /\ DesignerIdle

NextCamera ==
    \/ Camera_mount
    \/ useEffect_renderLoop
    \/ render_frame
    \/ startCamera
    \/ startCamera_resumed
    \/ startCamera_resumedUnmounted
    \/ onloadedmetadata
    \/ play_settled
    \/ stopCamera
    \/ dependencyChange
    \/ Camera_unmount

SpecCamera == InitCamera /\ [][NextCamera]_vars

(***************************************************************************)
(* Properties of the camera components (checked under SpecCamera)          *)
(***************************************************************************)
\* Every stream obtained so far has its tracks stopped.
allStopped(tracks) == \A k \in 1..Len(tracks) : tracks[k] = "stopped"

\* C28: when stopCamera has run, every stream that getUserMedia has
\* returned to an earlier startCamera call has its tracks stopped, however
\* the Start clicks and the getUserMedia and play() completions interleaved.
C28_StopStopsEveryStream == [][stopCamera => allStopped(browser'.tracks)]_vars

\* C29: while FunhouseMirrorWebcam is not mounted no camera track is live.
C29_UnmountedNoLiveTrack ==
    (webcam.component = "FunhouseMirrorWebcam" /\ ~webcam.mounted) =>
        allStopped(browser.tracks)

\* C30: at most one animation-frame callback is pending, and a pending
\* callback belongs to the loop in force: none is left from a loop that was
\* stopped by stopCamera, by the effect's cleanup on a dependency change or
\* on isActive turning false, or by unmount; and where stopCamera cancels the
\* frame itself, none is pending while isActive is false.
C30_OneLiveFrame ==
    /\ Cardinality(browser.frames) <= 1
    /\ \A f \in browser.frames : f.loop = webcam.loop
    /\ (webcam.component \in {"FunhouseMirrorWebcam", "WebcamMirror"} /\ ~webcam.isActive)
          => browser.frames = {}
    /\ ~webcam.mounted => browser.frames = {}

\* A loop was stopped, another one runs, and its callback has run at least
\* once.
C30_Witness ==
    /\ webcam.loop >= 2
    /\ browser.frames # {}
    /\ browser.requested > browser.loops

=============================================================================
